---- MODULE Spec2Model ----
(***************************************************************************)
(* xray-knife, package subs: the subscription Retriever                    *)
(* (Subscription.FetchAll), the Deduplicator (Subscription.RemoveDuplicate)*)
(* and the fetch orchestrator (FetchCommand) with its worker pool.         *)
(*                                                                         *)
(* Text is a sequence of bytes (0..255); a link is such a sequence.        *)
(***************************************************************************)
EXTENDS Integers, Sequences, FiniteSets, TLC

(***************************************************************************)
(* Bounds of the model.                                                    *)
(***************************************************************************)
\* longest link-list text a server holds in the Retriever specification
MaxBodyLen == 5
\* longest ConfigLinks sequence in the Deduplicator specification
MaxLinks == 4
\* most RemoveDuplicate calls on one Subscription in the Deduplicator specification
MaxDedupCalls == 2
\* subscriptions in the database, and most URLs in the file of --file
MaxSubs == 3
\* largest in-range --workers value tried below the ceiling
MaxWorkers == 2
\* most sources of a run in the specification with fairness
MaxLiveSources == 2
\* longest list of raw links handed to parseLinks in its own specification
MaxRawLinks == 3
\* how often the command is run again on the same database
MaxReruns == 1
\* longest text the user types at the prompt of rm
MaxAnswerLen == 3

(***************************************************************************)
(* Bytes.                                                                  *)
(***************************************************************************)
\* "\n", the separator of strings.Split in FetchAll
NL == 10
\* "\r", ignored with "\n" by the base64 decoder
CR == 13
\* "=", the base64 padding character
PAD == 61
\* " "
SP == 32
\* "a", a letter of the base64 alphabet
ChA == 97
\* ":", as in the "://" of every link scheme; outside the base64 alphabet
ChColon == 58
\* "v", first letter of a link a protocol of the core parses
ChV == 118
\* "x", first letter of a link no protocol recognises
ChX == 120
\* "p", first letter of a link on which the protocol parser panics
ChP == 112

\* "w", standing for the identifier "wireguard://" at the head of a link
ChW == 119
\* "@", between the user-info and the host of a URI
ChAt == 64
\* "#", before the fragment of a URI
ChHash == 35
\* "%", the first byte of a percent-escape
ChPct == 37
\* "y", "e", "s" and "Y", the letters of the answers to the prompt of rm
ChY == 121
ChE == 101
ChS == 115
ChYUp == 89
\* the digits "1", "2", "4" and "5" of the escapes "%41" and "%25"
Ch1 == 49
Ch2 == 50
Ch4 == 52
Ch5 == 53

\* unicode.IsSpace on the ASCII range, as used by strings.TrimSpace
IsSpace(b) == b \in {9, 10, 11, 12, 13, 32}

RECURSIVE TrimLeft(_)
TrimLeft(s) ==
    IF s # <<>> /\ IsSpace(Head(s)) THEN TrimLeft(Tail(s)) ELSE s

RECURSIVE TrimRight(_)
TrimRight(s) ==
    IF s # <<>> /\ IsSpace(s[Len(s)])
    THEN TrimRight(SubSeq(s, 1, Len(s) - 1))
    ELSE s

\* strings.TrimSpace
TrimSpace(s) == TrimRight(TrimLeft(s))

RECURSIVE SplitAcc(_, _, _, _)
SplitAcc(s, sep, cur, acc) ==
    IF s = <<>> THEN Append(acc, cur)
    ELSE IF Head(s) = sep
         THEN SplitAcc(Tail(s), sep, <<>>, Append(acc, cur))
         ELSE SplitAcc(Tail(s), sep, Append(cur, Head(s)), acc)

\* strings.Split(s, sep) for a one-byte separator: n separators give n+1 pieces
Split(s, sep) == SplitAcc(s, sep, <<>>, <<>>)

(***************************************************************************)
(* Standard base64 (RFC 4648, alphabet A-Z a-z 0-9 + /, padding =).        *)
(***************************************************************************)
B64Char(i) ==
    IF i < 26 THEN i + 65
    ELSE IF i < 52 THEN i + 71
    ELSE IF i < 62 THEN i - 4
    ELSE IF i = 62 THEN 43 ELSE 47

B64Index(c) ==
    IF c \in 65..90 THEN c - 65
    ELSE IF c \in 97..122 THEN c - 71
    ELSE IF c \in 48..57 THEN c + 4
    ELSE IF c = 43 THEN 62
    ELSE IF c = 47 THEN 63
    ELSE -1

RECURSIVE Base64Encode(_)
\* base64.StdEncoding.EncodeToString, as the tests encode a served body
Base64Encode(bytes) ==
    IF bytes = <<>> THEN <<>>
    ELSE IF Len(bytes) = 1 THEN
        LET n == bytes[1] * 65536
        IN  << B64Char(n \div 262144), B64Char((n \div 4096) % 64), PAD, PAD >>
    ELSE IF Len(bytes) = 2 THEN
        LET n == bytes[1] * 65536 + bytes[2] * 256
        IN  << B64Char(n \div 262144), B64Char((n \div 4096) % 64),
               B64Char((n \div 64) % 64), PAD >>
    ELSE
        LET n == bytes[1] * 65536 + bytes[2] * 256 + bytes[3]
        IN  << B64Char(n \div 262144), B64Char((n \div 4096) % 64),
               B64Char((n \div 64) % 64), B64Char(n % 64) >>
            \o Base64Encode(SubSeq(bytes, 4, Len(bytes)))

\* the decoder ignores "\r" and "\n" in its input
StripNewlines(s) == SelectSeq(s, LAMBDA c : c # NL /\ c # CR)

RECURSIVE B64DecodeQuads(_)
\* [ok, bytes] of a newline-free text
B64DecodeQuads(s) ==
    IF s = <<>> THEN [ok |-> TRUE, bytes |-> <<>>]
    ELSE IF Len(s) < 4 THEN [ok |-> FALSE, bytes |-> <<>>]
    ELSE
        LET i1 == B64Index(s[1])
            i2 == B64Index(s[2])
            i3 == B64Index(s[3])
            i4 == B64Index(s[4])
            last == Len(s) = 4
        IN  IF i1 < 0 \/ i2 < 0 THEN [ok |-> FALSE, bytes |-> <<>>]
            ELSE IF last /\ s[3] = PAD /\ s[4] = PAD THEN
                [ok |-> TRUE, bytes |-> << (i1 * 4 + i2 \div 16) % 256 >>]
            ELSE IF i3 < 0 THEN [ok |-> FALSE, bytes |-> <<>>]
            ELSE IF last /\ s[4] = PAD THEN
                [ok |-> TRUE,
                 bytes |-> << (i1 * 4 + i2 \div 16) % 256,
                              ((i2 % 16) * 16 + i3 \div 4) % 256 >>]
            ELSE IF i4 < 0 THEN [ok |-> FALSE, bytes |-> <<>>]
            ELSE
                LET rest == B64DecodeQuads(SubSeq(s, 5, Len(s)))
                IN  [ok |-> rest.ok,
                     bytes |-> IF rest.ok
                               THEN << (i1 * 4 + i2 \div 16) % 256,
                                       ((i2 % 16) * 16 + i3 \div 4) % 256,
                                       ((i3 % 4) * 64 + i4) % 256 >>
                                    \o rest.bytes
                               ELSE <<>>]

\* utils.Base64Decode: [ok, bytes]; ok = FALSE is the returned error
Base64Decode(s) == B64DecodeQuads(StripNewlines(s))

(***************************************************************************)
(* Subscription (the Retriever and the Deduplicator).                      *)
(***************************************************************************)
\* a Subscription value as the orchestrator and the tests construct it
NewSubscription(url, userAgent, proxy) ==
    [Url |-> url, UserAgent |-> userAgent, Method |-> "", ConfigLinks |-> <<>>,
     Proxy |-> proxy]

\* A URL is <<scheme, host>>.  BadUrl is "://invalid", the URL of
\* TestFetchAll_InvalidURL, which url.Parse rejects; EmptyUrl is "" and
\* RelUrl is "example.com/sub": url.Parse returns both without an error, as
\* references with no scheme.
Url(i) == <<"http", i>>
BadUrl == <<"", 1>>
EmptyUrl == <<"", 0>>
RelUrl == <<"", 2>>
InvalidUrls == {BadUrl}
UrlParseOK(u) == u \notin InvalidUrls
\* (*url.URL).IsAbs: the URL has a scheme
IsAbs(u) == UrlParseOK(u) /\ u[1] # ""

\* error values of FetchAll; status is 0 where no HTTP status is carried
Err(kind, status) == [kind |-> kind, status |-> status]
NoErr == Err("nil", 0)

\* faulty variant: the upper limit of the success range is off by one
StatusIsErrorOffByOne(code) == code < 200 \/ code > 300
\* response.StatusCode < 200 || response.StatusCode >= 300
StatusIsError(code) == code < 200 \/ code >= 300

\* faulty variant: the body is never base64-decoded
DecodeBodyPlainOnly(body) == Split(body, NL)
\* attempt base64, fall back to the raw body; split on "\n"
DecodeBody(body) ==
    LET decoded == Base64Decode(body)
    IN  IF ~decoded.ok THEN Split(body, NL) ELSE Split(decoded.bytes, NL)

RECURSIVE FilterLinesUntrimmed(_)
\* faulty variant: the kept line is the untrimmed one
FilterLinesUntrimmed(links) ==
    IF links = <<>> THEN <<>>
    ELSE LET trimmed == TrimSpace(Head(links))
         IN  IF trimmed # <<>>
             THEN <<Head(links)>> \o FilterLinesUntrimmed(Tail(links))
             ELSE FilterLinesUntrimmed(Tail(links))

RECURSIVE FilterLines(_)
\* the filter loop: keep the trimmed line when it is not empty
FilterLines(links) ==
    IF links = <<>> THEN <<>>
    ELSE LET trimmed == TrimSpace(Head(links))
         IN  IF trimmed # <<>>
             THEN <<trimmed>> \o FilterLines(Tail(links))
             ELSE FilterLines(Tail(links))

\* Subscription.FetchAll against a server answering resp =
\* [sendErr, StatusCode, readErr, Body].  The result: the returned links and
\* error, the Subscription after the call, whether a request was sent and the
\* User-Agent header set on it ("" when none was set).
FetchAll(s, resp) ==
    IF ~UrlParseOK(s.Url)
    THEN [links |-> <<>>, err |-> Err("InvalidURL", 0), sub |-> s,
          sent |-> FALSE, header |-> ""]
    ELSE
      LET s1 == IF s.Method = "" THEN [s EXCEPT !.Method = "GET"] ELSE s
          fail(e) == [links |-> <<>>, err |-> e, sub |-> s1, sent |-> TRUE,
                      header |-> s.UserAgent]
      IN  IF resp.sendErr THEN fail(Err("Send", 0))
          ELSE IF StatusIsError(resp.StatusCode)
               THEN fail(Err("HTTPStatus", resp.StatusCode))
          ELSE IF resp.readErr THEN fail(Err("ReadBody", 0))
          ELSE LET filtered == FilterLines(DecodeBody(resp.Body))
               IN  [links |-> filtered, err |-> NoErr,
                    sub |-> [s1 EXCEPT !.ConfigLinks = filtered],
                    sent |-> TRUE, header |-> s.UserAgent]

RECURSIVE DedupLoop(_, _, _)
\* the loop of RemoveDuplicate over the remaining items, the map of seen keys
\* and the list built so far
DedupLoop(items, allKeys, list) ==
    IF items = <<>> THEN list
    ELSE LET item == Head(items)
         IN  IF item \notin allKeys
             THEN DedupLoop(Tail(items), allKeys \cup {item}, Append(list, item))
             ELSE DedupLoop(Tail(items), allKeys, list)

\* faulty variant: the deduplicated list is stored only in verbose mode
RemoveDuplicateVerboseOnly(s, verbose) ==
    LET list == DedupLoop(s.ConfigLinks, {}, <<>>)
    IN  [sub |-> IF verbose THEN [s EXCEPT !.ConfigLinks = list] ELSE s,
         logged |-> IF verbose THEN <<Len(s.ConfigLinks) - Len(list)>> ELSE <<>>]

\* Subscription.RemoveDuplicate: the Subscription after the call and what
\* the call logged (the number of removed links, in verbose mode)
RemoveDuplicate(s, verbose) ==
    LET list == DedupLoop(s.ConfigLinks, {}, <<>>)
    IN  [sub |-> [s EXCEPT !.ConfigLinks = list],
         logged |-> IF verbose THEN <<Len(s.ConfigLinks) - Len(list)>> ELSE <<>>]

(***************************************************************************)
(* The state.                                                              *)
(***************************************************************************)
VARIABLES
    \* Retriever specification: a server holding one link-list text, served
    \* as it is at endpoint "plain" and base64-encoded at endpoint "b64"
    srvText, srvStatus,
    \* the Subscription fetched from each endpoint and what FetchAll returned
    rsub, rret,
    \* Deduplicator specification: a Subscription, its ConfigLinks at
    \* construction, the verbose flags of the calls made and their log lines
    dsub, dorig, dcalls, dlog,
    \* FetchCommand.config
    config,
    \* the database: subscriptions by id, the table of config rows, the
    \* subscriptions whose last-fetched timestamp was written
    subs, store, fetchedAt,
    \* the URLs utils.ParseFileByNewline reads from the file of --file
    fileUrls,
    \* the main goroutine: its position, the sources of the run (enabled /
    \* urls / the one source), the pool size, the next source to submit
    pc, srcs, workers, next,
    \* the pool: submitted tasks not yet started, and the tasks
    queue, task,
    \* the shared aggregation state of a fan-out run
    mu, allConfigs, totalRaw, failedCount, doneCount,
    \* what the run printed as totals, the output file, the returned error
    report, outFile, result,
    \* how often each URL was handed to the Retriever, and the sources whose
    \* configs were handed to the upsert of the store
    fetchCalls, handed,
    \* parseLinks specification: the raw links of a call and what it returned
    praw, pout,
    \* the wall clock (time.Now), and the fetches persisted so far in the
    \* specification of the store
    now, runs,
    \* the rm command: its argument, the --yes flag, what the user types,
    \* the database before it ran, its position and what it returned
    rm

retrieverVars == <<srvText, srvStatus, rsub, rret>>
dedupVars == <<dsub, dorig, dcalls, dlog>>
parseVars == <<praw, pout>>
clockVars == <<now, runs>>
rmVars == <<rm>>
dbVars == <<subs, store, fetchedAt>>
mainVars == <<pc, srcs, workers, next>>
poolVars == <<queue, task>>
sharedVars == <<mu, allConfigs, totalRaw, failedCount, doneCount>>
outVars == <<report, outFile, result>>
fetchVars == <<config, dbVars, fileUrls, mainVars, poolVars, sharedVars,
               outVars, fetchCalls, handed>>
vars == <<retrieverVars, dedupVars, parseVars, clockVars, rmVars, fetchVars>>

(***************************************************************************)
(* Input sets.                                                             *)
(***************************************************************************)
RECURSIVE SeqsUpTo(_, _)
\* the sequences over S of length at most n
SeqsUpTo(S, n) ==
    IF n = 0 THEN {<<>>}
    ELSE LET shorter == SeqsUpTo(S, n - 1)
         IN  shorter \cup
             {Append(s, x) : s \in {u \in shorter : Len(u) = n - 1}, x \in S}

\* the bytes of a served link list: a base64 letter, a byte outside the
\* base64 alphabet, a blank and the line separator
TextAlphabet == {ChA, ChColon, SP, NL}
\* HTTP statuses a server answers with, around both ends of 200..299
Statuses == {199, 200, 299, 300, 404}
\* the two endpoints of the server of the Retriever specification
Endpoints == {"plain", "b64"}
\* what the network does to one request
NetOutcomes == {"ok", "sendErr", "readErr"}
\* the links of the Deduplicator specification
DedupLinks == {<<ChA>>, <<ChV>>, <<ChX>>}

(***************************************************************************)
(* The Retriever specification: FetchAll against the two endpoints.        *)
(***************************************************************************)
NotCalled ==
    [called |-> FALSE, net |-> "ok", body |-> <<>>, links |-> <<>>,
     err |-> NoErr, sent |-> FALSE, header |-> ""]

RetrieverInit ==
    /\ srvText \in SeqsUpTo(TextAlphabet, MaxBodyLen)
    /\ srvStatus \in Statuses
    /\ rsub = [e \in Endpoints |-> NewSubscription(<<"http", e>>, "", "")]
    /\ rret = [e \in Endpoints |-> NotCalled]

\* the state of the Retriever variables in the other specifications
RetrieverIdle ==
    /\ srvText = <<>>
    /\ srvStatus = 200
    /\ rsub = [e \in Endpoints |-> NewSubscription(<<"http", e>>, "", "")]
    /\ rret = [e \in Endpoints |-> NotCalled]

\* the body the server sends at an endpoint
ServedBody(e) == IF e = "b64" THEN Base64Encode(srvText) ELSE srvText

\* one call s.FetchAll() of the Subscription of endpoint e
RetrieverFetchAll(e) ==
    /\ ~rret[e].called
    /\ \E net \in NetOutcomes :
         LET resp == [sendErr |-> net = "sendErr", StatusCode |-> srvStatus,
                      readErr |-> net = "readErr", Body |-> ServedBody(e)]
             r == FetchAll(rsub[e], resp)
         IN  /\ rsub' = [rsub EXCEPT ![e] = r.sub]
             /\ rret' = [rret EXCEPT ![e] =
                           [called |-> TRUE, net |-> net, body |-> resp.Body,
                            links |-> r.links, err |-> r.err,
                            sent |-> r.sent, header |-> r.header]]
    /\ UNCHANGED <<srvText, srvStatus, dedupVars, parseVars, clockVars, rmVars,
                   fetchVars>>

(***************************************************************************)
(* The Deduplicator specification: RemoveDuplicate on one Subscription.    *)
(***************************************************************************)
DedupInit ==
    /\ dorig \in SeqsUpTo(DedupLinks, MaxLinks)
    /\ dsub = [NewSubscription(EmptyUrl, "", "") EXCEPT !.ConfigLinks = dorig]
    /\ dcalls = <<>>
    /\ dlog = <<>>

\* the state of the Deduplicator variables in the other specifications
DedupIdle ==
    /\ dorig = <<>>
    /\ dsub = NewSubscription(EmptyUrl, "", "")
    /\ dcalls = <<>>
    /\ dlog = <<>>

\* one call s.RemoveDuplicate(verbose)
DedupCall(verbose) ==
    /\ Len(dcalls) < MaxDedupCalls
    /\ LET r == RemoveDuplicate(dsub, verbose)
       IN  /\ dsub' = r.sub
           /\ dlog' = dlog \o r.logged
    /\ dcalls' = Append(dcalls, verbose)
    /\ UNCHANGED <<dorig, retrieverVars, parseVars, clockVars, rmVars, fetchVars>>

(***************************************************************************)
(* The fetch orchestrator (FetchCommand).                                  *)
(***************************************************************************)
\* the limits of --workers in validateFlags
WorkersMin == 1
WorkersMax == 20

\* sql.NullInt64, sql.NullString and sql.NullTime
NullInt64(v, valid) == [Int64 |-> v, Valid |-> valid]
NullString(s) == [String |-> s, Valid |-> s # ""]
NullTime(t, valid) == [Time |-> t, Valid |-> valid]

(***************************************************************************)
(* The Wireguard variant of the link decoder.                              *)
(***************************************************************************)
\* a hexadecimal digit, and its value
IsHex(c) == c \in 48..57 \/ c \in 65..70 \/ c \in 97..102
Unhex(c) ==
    IF c \in 48..57 THEN c - 48 ELSE IF c \in 97..102 THEN c - 87 ELSE c - 55

RECURSIVE EscapesOK(_)
\* every "%" of s is followed by two hexadecimal digits
EscapesOK(s) ==
    IF s = <<>> THEN TRUE
    ELSE IF Head(s) = ChPct
    THEN /\ Len(s) >= 3
         /\ IsHex(s[2]) /\ IsHex(s[3])
         /\ EscapesOK(SubSeq(s, 4, Len(s)))
    ELSE EscapesOK(Tail(s))

RECURSIVE UnescapeBytes(_)
\* s with every escape replaced by the byte it names
UnescapeBytes(s) ==
    IF s = <<>> THEN <<>>
    ELSE IF Head(s) = ChPct
    THEN <<Unhex(s[2]) * 16 + Unhex(s[3])>> \o UnescapeBytes(SubSeq(s, 4, Len(s)))
    ELSE <<Head(s)>> \o UnescapeBytes(Tail(s))

\* url.PathUnescape: [ok, bytes]; ok = FALSE is the returned EscapeError
PathUnescape(s) ==
    IF EscapesOK(s) THEN [ok |-> TRUE, bytes |-> UnescapeBytes(s)]
    ELSE [ok |-> FALSE, bytes |-> <<>>]

\* the first place of byte c in s, and the last; 0 when s has no c
IndexByte(s, c) ==
    IF \E k \in DOMAIN s : s[k] = c
    THEN CHOOSE k \in DOMAIN s : s[k] = c /\ \A j \in 1..(k - 1) : s[j] # c
    ELSE 0
LastIndexByte(s, c) ==
    IF \E k \in DOMAIN s : s[k] = c
    THEN CHOOSE k \in DOMAIN s : s[k] = c /\ \A j \in (k + 1)..Len(s) : s[j] # c
    ELSE 0

\* url.Parse of a link with no path and no query: the fragment is what
\* follows the first "#", unescaped (an invalid escape is an error); the
\* user-info is what precedes the last "@" of the authority and the host is
\* what follows it
UrlParseLink(link) ==
    LET rest == Tail(link)
        h == IndexByte(rest, ChHash)
        authority == IF h = 0 THEN rest ELSE SubSeq(rest, 1, h - 1)
        frag == PathUnescape(IF h = 0 THEN <<>>
                             ELSE SubSeq(rest, h + 1, Len(rest)))
        at == LastIndexByte(authority, ChAt)
    IN  [ok |-> frag.ok,
         User |-> SubSeq(authority, 1, at - 1),
         Host |-> SubSeq(authority, at + 1, Len(authority)),
         Fragment |-> frag.bytes]

\* Wireguard.Name
WireguardName == "wireguard"

\* NewWireguard(link)
NewWireguard(link) ==
    [OrigLink |-> link, SecretKey |-> <<>>, Endpoint |-> <<>>, Remark |-> <<>>]

\* Wireguard.Parse on a link with no query: [ok, w]; ok = FALSE is the
\* returned error
WireguardParse(w) ==
    IF w.OrigLink = <<>> \/ Head(w.OrigLink) # ChW THEN [ok |-> FALSE, w |-> w]
    ELSE
      LET uri == UrlParseLink(w.OrigLink)
          unescapedSecretKey == PathUnescape(uri.User)
          remark == PathUnescape(uri.Fragment)
      IN  IF ~uri.ok THEN [ok |-> FALSE, w |-> w]
          ELSE IF ~unescapedSecretKey.ok THEN [ok |-> FALSE, w |-> w]
          ELSE [ok |-> TRUE,
                w |-> [w EXCEPT !.SecretKey = unescapedSecretKey.bytes,
                                !.Endpoint = uri.Host,
                                !.Remark = IF remark.ok THEN remark.bytes
                                           ELSE uri.Fragment]]

\* Wireguard.ConvertToGeneralConfig: the named result g starts as the zero
\* GeneralConfig and is returned with its Protocol and Address set
ConvertToGeneralConfig(w) ==
    [Protocol |-> WireguardName, Address |-> w.Endpoint, Remark |-> ""]

\* core.CreateProtocol(link), Parse and ConvertToGeneralConfig: the protocol
\* is chosen by the leading identifier of the link; an unknown identifier is
\* an error, and a parser may fault on a malformed link
DecodeLink(link) ==
    IF link # <<>> /\ Head(link) = ChV
    THEN [outcome |-> "ok", Protocol |-> "vless", Remark |-> ""]
    ELSE IF link # <<>> /\ Head(link) = ChW
    THEN LET parsed == WireguardParse(NewWireguard(link))
             g == ConvertToGeneralConfig(parsed.w)
         IN  IF parsed.ok
             THEN [outcome |-> "ok", Protocol |-> g.Protocol, Remark |-> g.Remark]
             ELSE [outcome |-> "err", Protocol |-> "", Remark |-> ""]
    ELSE IF link # <<>> /\ Head(link) = ChP
    THEN [outcome |-> "panic", Protocol |-> "", Remark |-> ""]
    ELSE [outcome |-> "err", Protocol |-> "", Remark |-> ""]

RECURSIVE parseLinksUntilFault(_, _, _)
\* faulty variant: the fault of a decoder is recovered around the loop, so
\* the configs built before the faulting link are all that is returned
parseLinksUntilFault(rawLinks, subID, at) ==
    IF rawLinks = <<>> THEN <<>>
    ELSE
      LET trimmedLink == TrimSpace(Head(rawLinks))
          d == DecodeLink(trimmedLink)
          dbConf == [SubscriptionID |-> subID,
                     ConfigLink |-> trimmedLink,
                     LastSeenAt |-> NullTime(at, TRUE),
                     Protocol |-> IF d.outcome = "ok" THEN NullString(d.Protocol)
                                  ELSE NullString(""),
                     Remark |-> IF d.outcome = "ok" THEN NullString(d.Remark)
                                ELSE NullString("")]
      IN  IF trimmedLink = <<>>
          THEN parseLinksUntilFault(Tail(rawLinks), subID, at)
          ELSE IF d.outcome = "panic" THEN <<>>
          ELSE <<dbConf>> \o parseLinksUntilFault(Tail(rawLinks), subID, at)

RECURSIVE parseLinksNoLastSeen(_, _, _)
\* faulty variant: LastSeenAt is left at its zero value
parseLinksNoLastSeen(rawLinks, subID, at) ==
    IF rawLinks = <<>> THEN <<>>
    ELSE
      LET trimmedLink == TrimSpace(Head(rawLinks))
          d == DecodeLink(trimmedLink)
          dbConf == [SubscriptionID |-> subID,
                     ConfigLink |-> trimmedLink,
                     LastSeenAt |-> NullTime(0, FALSE),
                     Protocol |-> IF d.outcome = "ok" THEN NullString(d.Protocol)
                                  ELSE NullString(""),
                     Remark |-> IF d.outcome = "ok" THEN NullString(d.Remark)
                                ELSE NullString("")]
      IN  IF trimmedLink = <<>>
          THEN parseLinksNoLastSeen(Tail(rawLinks), subID, at)
          ELSE <<dbConf>> \o parseLinksNoLastSeen(Tail(rawLinks), subID, at)

RECURSIVE parseLinksReversed(_, _, _)
\* faulty variant: each config is put in front of those built before it
parseLinksReversed(rawLinks, subID, at) ==
    IF rawLinks = <<>> THEN <<>>
    ELSE
      LET trimmedLink == TrimSpace(Head(rawLinks))
          d == DecodeLink(trimmedLink)
          dbConf == [SubscriptionID |-> subID,
                     ConfigLink |-> trimmedLink,
                     LastSeenAt |-> NullTime(at, TRUE),
                     Protocol |-> IF d.outcome = "ok" THEN NullString(d.Protocol)
                                  ELSE NullString(""),
                     Remark |-> IF d.outcome = "ok" THEN NullString(d.Remark)
                                ELSE NullString("")]
      IN  IF trimmedLink = <<>>
          THEN parseLinksReversed(Tail(rawLinks), subID, at)
          ELSE parseLinksReversed(Tail(rawLinks), subID, at) \o <<dbConf>>

RECURSIVE parseLinks(_, _, _)
\* FetchCommand.parseLinks called at the time at (now := time.Now()): one
\* config per non-empty trimmed link; protocol and remark stay NULL unless
\* the link parses; a fault of the decoder is recovered inside the iteration
parseLinks(rawLinks, subID, at) ==
    IF rawLinks = <<>> THEN <<>>
    ELSE
      LET trimmedLink == TrimSpace(Head(rawLinks))
          d == DecodeLink(trimmedLink)
          dbConf == [SubscriptionID |-> subID,
                     ConfigLink |-> trimmedLink,
                     LastSeenAt |-> NullTime(at, TRUE),
                     Protocol |-> IF d.outcome = "ok" THEN NullString(d.Protocol)
                                  ELSE NullString(""),
                     Remark |-> IF d.outcome = "ok" THEN NullString(d.Remark)
                                ELSE NullString("")]
      IN  IF trimmedLink = <<>> THEN parseLinks(Tail(rawLinks), subID, at)
          ELSE <<dbConf>> \o parseLinks(Tail(rawLinks), subID, at)

\* the raw links of the rows of the table st
StoredLinks(st) == {st[k].ConfigLink : k \in DOMAIN st}
\* the place in st of the row of a stored link
RowOf(st, link) == CHOOSE k \in DOMAIN st : st[k].ConfigLink = link

RECURSIVE UpsertSubscriptionConfigs(_, _)
\* database.UpsertSubscriptionConfigs on the table st of config rows, in the
\* order of their insertion: a config whose raw link is not stored is
\* inserted under the next row id; the row of a stored link keeps its id, is
\* refreshed with the protocol, the remark and the last-seen time of the
\* config, and keeps its owning subscription when the config has none
UpsertSubscriptionConfigs(st, configs) ==
    IF configs = <<>> THEN st
    ELSE
      LET c == Head(configs)
          st1 == IF c.ConfigLink \in StoredLinks(st)
                 THEN LET k == RowOf(st, c.ConfigLink)
                      IN  [st EXCEPT
                             ![k].SubscriptionID =
                                 IF c.SubscriptionID.Valid
                                 THEN c.SubscriptionID ELSE @,
                             ![k].Protocol = c.Protocol,
                             ![k].Remark = c.Remark,
                             ![k].LastSeenAt = c.LastSeenAt]
                 ELSE Append(st, [ID |-> Len(st) + 1,
                                  SubscriptionID |-> c.SubscriptionID,
                                  ConfigLink |-> c.ConfigLink,
                                  Protocol |-> c.Protocol,
                                  Remark |-> c.Remark,
                                  LastSeenAt |-> c.LastSeenAt])
      IN  UpsertSubscriptionConfigs(st1, Tail(configs))

RECURSIVE JoinLines(_)
\* strings.Join(links, "\n") + "\n" for a non-empty list of links
JoinLines(links) ==
    IF Len(links) = 1 THEN Head(links) \o <<NL>>
    ELSE Head(links) \o <<NL>> \o JoinLines(Tail(links))

\* faulty variant: the links are joined with no newline after the last
FileContentNoTrailingNewline(configs) ==
    LET joined == JoinLines([k \in 1..Len(configs) |-> configs[k].ConfigLink])
    IN  SubSeq(joined, 1, Len(joined) - 1)
\* saveConfigsToFile: the content written to the output file
FileContent(configs) ==
    JoinLines([k \in 1..Len(configs) |-> configs[k].ConfigLink])

\* faulty variant: the pool is created with one worker per source
PoolSizePerSource(w, n) == n
\* workers := fc.config.Workers, clamped to the number of sources
PoolSize(w, n) == IF w > n THEN n ELSE w

\* faulty variant: the user agent of the source comes before the override
EffectiveUserAgentOwnFirst(own) == IF own # "" THEN own ELSE config.UserAgent
\* the effective user agent of a source
EffectiveUserAgent(own) == IF config.UserAgent # "" THEN config.UserAgent ELSE own

(***************************************************************************)
(* Inputs of a run.                                                        *)
(***************************************************************************)
\* --workers values: below, inside and above the accepted range
WorkerInputs == (0..MaxWorkers) \cup {WorkersMax, WorkersMax + 1}
OutputFileInputs == {"", "configs.txt"}

\* the selector flags (cobra keeps --id, --url, --all, --file exclusive):
\* none, --id of a stored or a missing subscription, --url, --all, --file
Selectors ==
    {[SubscriptionID |-> 0, SubscriptionURL |-> EmptyUrl, FetchAll |-> FALSE,
      FileInput |-> ""]}
    \cup {[SubscriptionID |-> id, SubscriptionURL |-> EmptyUrl,
           FetchAll |-> FALSE, FileInput |-> ""] : id \in {1, MaxSubs + 1}}
    \cup {[SubscriptionID |-> 0, SubscriptionURL |-> u, FetchAll |-> FALSE,
           FileInput |-> ""] : u \in {Url(1), BadUrl}}
    \cup {[SubscriptionID |-> 0, SubscriptionURL |-> EmptyUrl,
           FetchAll |-> TRUE, FileInput |-> ""]}
    \cup {[SubscriptionID |-> 0, SubscriptionURL |-> EmptyUrl,
           FetchAll |-> FALSE, FileInput |-> "urls.txt"]}

Configs ==
    {[SubscriptionID |-> s.SubscriptionID, SubscriptionURL |-> s.SubscriptionURL,
      FetchAll |-> s.FetchAll, FileInput |-> s.FileInput, Workers |-> w,
      OutputFile |-> o, UserAgent |-> "", Proxy |-> ""] :
        s \in Selectors, w \in WorkerInputs, o \in OutputFileInputs}

\* a stored subscription (database.Subscription)
DbSubscription(id, enabled) ==
    [ID |-> id, URL |-> Url(id), UserAgent |-> NullString(""),
     Enabled |-> enabled]

\* a source of a run: the id of its subscription (0 when it has none), its
\* URL and its own user agent
Source(id, url, ua) == [ID |-> id, URL |-> url, UserAgent |-> ua]

\* what a server answers to the request of one source: no text, the base64
\* encoding of a list of two links, or the text the server holds
FetchBodies == {<<>>, Base64Encode(<<ChV, NL, ChX>>), srvText}
FetchResponses ==
    {[sendErr |-> TRUE, StatusCode |-> 0, readErr |-> FALSE, Body |-> <<>>],
     [sendErr |-> FALSE, StatusCode |-> 404, readErr |-> FALSE, Body |-> <<>>]}
    \cup {[sendErr |-> FALSE, StatusCode |-> 200, readErr |-> FALSE, Body |-> b] :
            b \in FetchBodies}

AllUrls == {Url(i) : i \in 1..MaxSubs} \cup {BadUrl}

\* a unit of work: its position, its outcome and error, the Subscription it
\* called FetchAll on, whether a request was sent and with which User-Agent
\* header, the links and configs it holds, the time parseLinks read from
\* the clock, what the write of the last-fetched timestamp did, and what it
\* read under the mutex
NewTask ==
    [pc |-> "new", outcome |-> "none", err |-> NoErr,
     sub |-> NewSubscription(EmptyUrl, "", ""), called |-> FALSE,
     sent |-> FALSE, header |-> "", rawLinks |-> <<>>,
     dbConfigs |-> <<>>, at |-> 0, stamp |-> "none", seenConfigs |-> <<>>,
     seenRaw |-> 0]

NoReport == [printed |-> FALSE, links |-> 0, saved |-> 0, failed |-> 0]
NoFile == [written |-> FALSE, content |-> <<>>]

FetchInit ==
    /\ config \in Configs
    /\ subs \in {[id \in 1..MaxSubs |-> DbSubscription(id, en[id])] :
                    en \in [1..MaxSubs -> BOOLEAN]}
    /\ fileUrls \in {[k \in 1..n |-> Url(k)] : n \in 0..MaxSubs}
    \* the database matters to --all and --id, the file to --file
    /\ config.FetchAll \/ \A id \in 1..MaxSubs : subs[id].Enabled
    /\ config.FileInput # "" \/ fileUrls = <<>>
    /\ store = <<>>
    /\ fetchedAt = {}
    /\ pc = "validate"
    /\ srcs = <<>>
    /\ workers = 0
    /\ next = 1
    /\ queue = <<>>
    /\ task = [i \in 1..MaxSubs |-> NewTask]
    /\ mu = 0
    /\ allConfigs = <<>>
    /\ totalRaw = 0
    /\ failedCount = 0
    /\ doneCount = 0
    /\ report = NoReport
    /\ outFile = NoFile
    /\ result = "running"
    /\ fetchCalls = [u \in AllUrls |-> 0]
    /\ handed = {}

\* the state of the orchestrator variables in the other specifications
FetchIdle ==
    /\ config = [SubscriptionID |-> 0, SubscriptionURL |-> EmptyUrl,
                 FetchAll |-> FALSE, FileInput |-> "", Workers |-> 0,
                 OutputFile |-> "", UserAgent |-> "", Proxy |-> ""]
    /\ subs = [id \in 1..MaxSubs |-> DbSubscription(id, TRUE)]
    /\ fileUrls = <<>>
    /\ store = <<>>
    /\ fetchedAt = {}
    /\ pc = "idle"
    /\ srcs = <<>>
    /\ workers = 0
    /\ next = 1
    /\ queue = <<>>
    /\ task = [i \in 1..MaxSubs |-> NewTask]
    /\ mu = 0
    /\ allConfigs = <<>>
    /\ totalRaw = 0
    /\ failedCount = 0
    /\ doneCount = 0
    /\ report = NoReport
    /\ outFile = NoFile
    /\ result = "running"
    /\ fetchCalls = [u \in AllUrls |-> 0]
    /\ handed = {}

\* faulty variant: the error is logged and the run returns nil
ReturnSwallowed(r) == pc' = "done" /\ result' = "nil"
\* the run returns: nil, or the error named
Return(r) == pc' = "done" /\ result' = r

(***************************************************************************)
(* The main goroutine.                                                     *)
(***************************************************************************)
\* faulty variant: the ceiling of --workers is not checked
validateFlagsNoCeiling ==
    /\ pc = "validate"
    /\ IF /\ config.SubscriptionID = 0
          /\ config.SubscriptionURL = EmptyUrl
          /\ ~config.FetchAll
          /\ config.FileInput = ""
       THEN Return("ConfigurationError")
       ELSE IF config.Workers < WorkersMin THEN Return("ConfigurationError")
       ELSE pc' = "run" /\ result' = result
    /\ UNCHANGED <<retrieverVars, dedupVars, parseVars, clockVars, rmVars,
                   config, dbVars, fileUrls, srcs, workers, next, poolVars,
                   sharedVars, report, outFile, fetchCalls, handed>>

\* validateFlags (PreRunE)
validateFlags ==
    /\ pc = "validate"
    /\ IF /\ config.SubscriptionID = 0
          /\ config.SubscriptionURL = EmptyUrl
          /\ ~config.FetchAll
          /\ config.FileInput = ""
       THEN Return("ConfigurationError")
       ELSE IF config.Workers < WorkersMin THEN Return("ConfigurationError")
       ELSE IF config.Workers > WorkersMax THEN Return("ConfigurationError")
       ELSE pc' = "run" /\ result' = result
    /\ UNCHANGED <<retrieverVars, dedupVars, parseVars, clockVars, rmVars,
                   config, dbVars, fileUrls, srcs, workers, next, poolVars,
                   sharedVars, report, outFile, fetchCalls, handed>>

\* faulty variant: the Enabled flag is not looked at
EnabledSourcesUnfiltered ==
    [k \in 1..MaxSubs |-> Source(k, subs[k].URL, subs[k].UserAgent.String)]

\* the subscriptions of the database with Enabled set, in id order
EnabledSources ==
    LET ids == {id \in DOMAIN subs : subs[id].Enabled}
        nth(k) == CHOOSE id \in ids : Cardinality({j \in ids : j < id}) = k - 1
    IN  [k \in 1..Cardinality(ids) |->
            Source(nth(k), subs[nth(k)].URL, subs[nth(k)].UserAgent.String)]

\* the pool is created for the sources and the submit loop begins
StartPool(sources) ==
    /\ srcs' = sources
    /\ workers' = PoolSize(config.Workers, Len(sources))
    /\ next' = 1
    /\ pc' = "submit"
    /\ result' = result

\* fetchAllSubscriptions up to the creation of the pool
fetchAllSubscriptions ==
    /\ pc = "run"
    /\ config.FetchAll
    /\ \E listOK \in BOOLEAN :
         IF ~listOK
         THEN Return("StoreError") /\ UNCHANGED <<srcs, workers, next>>
         ELSE IF Len(EnabledSources) = 0
         THEN Return("nil") /\ UNCHANGED <<srcs, workers, next>>
         ELSE StartPool(EnabledSources)
    /\ UNCHANGED <<retrieverVars, dedupVars, parseVars, clockVars, rmVars,
                   config, dbVars, fileUrls, poolVars, sharedVars, report,
                   outFile, fetchCalls, handed>>

\* faulty variant: a file with no URL ends the run with a warning and nil,
\* as all-enabled mode does with no enabled subscription
fetchFromFileEmptyOK ==
    /\ pc = "run"
    /\ ~config.FetchAll
    /\ config.FileInput # ""
    /\ IF Len(fileUrls) = 0
       THEN Return("nil") /\ UNCHANGED <<srcs, workers, next>>
       ELSE StartPool([k \in 1..Len(fileUrls) |-> Source(0, fileUrls[k], "")])
    /\ UNCHANGED <<retrieverVars, dedupVars, parseVars, clockVars, rmVars,
                   config, dbVars, fileUrls, poolVars, sharedVars, report,
                   outFile, fetchCalls, handed>>

\* fetchFromFile up to the creation of the pool
fetchFromFile ==
    /\ pc = "run"
    /\ ~config.FetchAll
    /\ config.FileInput # ""
    /\ IF Len(fileUrls) = 0
       THEN Return("NoURLs") /\ UNCHANGED <<srcs, workers, next>>
       ELSE StartPool([k \in 1..Len(fileUrls) |-> Source(0, fileUrls[k], "")])
    /\ UNCHANGED <<retrieverVars, dedupVars, parseVars, clockVars, rmVars,
                   config, dbVars, fileUrls, poolVars, sharedVars, report,
                   outFile, fetchCalls, handed>>

\* one iteration of the submit loop: pool.Submit of the next source
Submit ==
    /\ pc = "submit"
    /\ queue' = Append(queue, next)
    /\ task' = [task EXCEPT ![next].pc = "queued"]
    /\ next' = next + 1
    /\ pc' = IF next = Len(srcs) THEN "wait" ELSE "submit"
    /\ UNCHANGED <<retrieverVars, dedupVars, parseVars, clockVars, rmVars,
                   config, dbVars, fileUrls, srcs, workers, sharedVars,
                   outVars, fetchCalls, handed>>

\* the tasks a worker of the pool is running
Running == {i \in 1..Len(srcs) : task[i].pc \in {"fetch", "persist", "lock", "crit"}}

\* faulty variant: StopAndWait returns at once
PoolDrainedNoWait == TRUE
\* pool.StopAndWait returns when every submitted task has completed
PoolDrained == queue = <<>> /\ Running = {}

\* pool.StopAndWait, the load of failedCount and the totals line
StopAndWait ==
    /\ pc = "wait"
    /\ PoolDrained
    /\ report' = [printed |-> TRUE, links |-> totalRaw,
                  saved |-> Len(allConfigs), failed |-> failedCount]
    /\ pc' = "finish"
    /\ UNCHANGED <<retrieverVars, dedupVars, parseVars, clockVars, rmVars,
                   config, dbVars, fileUrls, srcs, workers, next, poolVars,
                   sharedVars, outFile, result, fetchCalls, handed>>

\* faulty variant: one failed source is tolerated
RunOutcomeOffByOne(failed) == IF failed > 1 THEN "SourcesFailed" ELSE "nil"
\* if failed > 0 { return fmt.Errorf(...) }; return nil
RunOutcome(failed) == IF failed > 0 THEN "SourcesFailed" ELSE "nil"

\* the end of a fan-out run: the output file and the returned error
Finish ==
    /\ pc = "finish"
    /\ IF config.OutputFile # "" /\ Len(allConfigs) > 0
       THEN \E writeOK \in BOOLEAN :
              IF ~writeOK
              THEN Return("SaveFileError") /\ outFile' = outFile
              ELSE /\ outFile' = [written |-> TRUE,
                                  content |-> FileContent(allConfigs)]
                   /\ Return(RunOutcome(report.failed))
       ELSE /\ outFile' = outFile
            /\ Return(RunOutcome(report.failed))
    /\ UNCHANGED <<retrieverVars, dedupVars, parseVars, clockVars, rmVars,
                   config, dbVars, fileUrls, srcs, workers, next, poolVars,
                   sharedVars, report, fetchCalls, handed>>

(***************************************************************************)
(* The unit of work of one source, run by a worker of the pool.            *)
(***************************************************************************)
\* the Subscription a source is fetched with
SubToFetch(src) ==
    NewSubscription(src.URL, EffectiveUserAgent(src.UserAgent), config.Proxy)

\* faulty variant: every unit of work reads the loop variable of the first
\* source
OwnerOfFirstSource(src) == NullInt64(srcs[1].ID, srcs[1].ID # 0)
\* faulty variant: the owner is marked valid in every mode
OwnerOfAlwaysValid(src) == NullInt64(src.ID, TRUE)
\* the owning subscription of the configs of a source
OwnerOf(src) == NullInt64(src.ID, src.ID # 0)

\* a worker takes the oldest submitted task; atomic.AddInt32(&doneCount, 1)
TaskStart(i) ==
    /\ queue # <<>>
    /\ Head(queue) = i
    /\ Cardinality(Running) < workers
    /\ queue' = Tail(queue)
    /\ task' = [task EXCEPT ![i].pc = "fetch"]
    /\ doneCount' = doneCount + 1
    /\ UNCHANGED <<retrieverVars, dedupVars, parseVars, clockVars, rmVars,
                   config, dbVars, fileUrls, mainVars, mu, allConfigs,
                   totalRaw, failedCount, outVars, fetchCalls, handed>>

\* faulty variant: the failed source is not counted
FailSourceUncounted(t, i, outcome, err) ==
    /\ failedCount' = failedCount
    /\ task' = [t EXCEPT ![i].pc = "done", ![i].outcome = outcome,
                         ![i].err = err]

\* faulty variant: a failed source is counted and fetched again
FailSourceRetry(t, i, outcome, err) ==
    /\ failedCount' = failedCount + 1
    /\ task' = [t EXCEPT ![i].pc = "fetch"]

\* faulty variant: the failure is counted where it is logged and again
\* before the return
FailSourceTwice(t, i, outcome, err) ==
    /\ failedCount' = failedCount + 2
    /\ task' = [t EXCEPT ![i].pc = "done", ![i].outcome = outcome,
                         ![i].err = err]

\* faulty variant: the failure is counted and the unit of work goes on to
\* the aggregation
FailSourceAggregated(t, i, outcome, err) ==
    /\ failedCount' = failedCount + 1
    /\ task' = [t EXCEPT ![i].pc = "lock", ![i].err = err]

\* the failure path of the unit of work i, whose record so far is t[i]: the
\* failure is logged, atomic.AddInt32(&failedCount, 1), return
FailSource(t, i, outcome, err) ==
    /\ failedCount' = failedCount + 1
    /\ task' = [t EXCEPT ![i].pc = "done", ![i].outcome = outcome,
                         ![i].err = err]

\* subToFetch.FetchAll() returns; on an error the source has failed,
\* otherwise its links are parsed
TaskFetch(i) ==
    /\ task[i].pc = "fetch"
    /\ \E resp \in FetchResponses :
         LET r == FetchAll(SubToFetch(srcs[i]), resp)
             dbConfigs == parseLinks(r.links, OwnerOf(srcs[i]), now)
             called == [task EXCEPT ![i].sub = r.sub, ![i].called = TRUE,
                                    ![i].sent = r.sent, ![i].header = r.header]
         IN  IF r.err # NoErr
             THEN FailSource(called, i, "fetchErr", r.err)
             ELSE /\ failedCount' = failedCount
                  /\ task' = [called EXCEPT
                                ![i].pc = IF Len(dbConfigs) > 0 THEN "persist"
                                          ELSE "lock",
                                ![i].rawLinks = r.links,
                                ![i].dbConfigs = dbConfigs,
                                ![i].at = now]
    /\ fetchCalls' = [fetchCalls EXCEPT ![srcs[i].URL] = @ + 1]
    /\ UNCHANGED <<retrieverVars, dedupVars, parseVars, clockVars, rmVars,
                   config, dbVars, fileUrls, mainVars, queue, mu, allConfigs,
                   totalRaw, doneCount, outVars, handed>>

\* what the write of the last-fetched timestamp did, when it was attempted
StampResult(attempted, stampOK) ==
    IF ~attempted THEN "none" ELSE IF stampOK THEN "ok" ELSE "failed"

\* faulty variant: the unit of work returns when the write of the
\* last-fetched timestamp fails
AfterStampReturnOnError(stampOK) == IF stampOK THEN "lock" ELSE "done"
\* where the unit of work goes on after the write of the last-fetched
\* timestamp: its error is logged as a warning and nothing else
AfterStamp(stampOK) == "lock"

\* faulty variant: the last-fetched timestamp is written before the error
\* of the upsert is looked at
TaskPersistStampFirst(i) ==
    /\ task[i].pc = "persist"
    /\ \E upsertOK \in BOOLEAN, stampOK \in BOOLEAN :
         /\ fetchedAt' = IF config.FetchAll /\ stampOK
                         THEN fetchedAt \cup {srcs[i].ID}
                         ELSE fetchedAt
         /\ IF ~upsertOK
            THEN /\ FailSource([task EXCEPT ![i].stamp =
                                   StampResult(config.FetchAll, stampOK)],
                               i, "storeErr", Err("StoreError", 0))
                 /\ store' = store
            ELSE /\ failedCount' = failedCount
                 /\ store' = UpsertSubscriptionConfigs(store, task[i].dbConfigs)
                 /\ task' = [task EXCEPT
                               ![i].stamp = StampResult(config.FetchAll, stampOK),
                               ![i].pc = "lock"]
    /\ handed' = handed \cup {i}
    /\ UNCHANGED <<retrieverVars, dedupVars, parseVars, clockVars, rmVars,
                   config, subs, fileUrls, mainVars,
                   queue, mu, allConfigs, totalRaw, doneCount, outVars,
                   fetchCalls>>

\* the configs are upserted; a failure fails the source; after a success the
\* last-fetched timestamp of the subscription is written (--all), and a
\* failure of that write is a warning
TaskPersist(i) ==
    /\ task[i].pc = "persist"
    /\ \E upsertOK \in BOOLEAN, stampOK \in BOOLEAN :
         IF ~upsertOK
         THEN /\ FailSource(task, i, "storeErr", Err("StoreError", 0))
              /\ UNCHANGED <<store, fetchedAt>>
         ELSE /\ failedCount' = failedCount
              /\ store' = UpsertSubscriptionConfigs(store, task[i].dbConfigs)
              /\ fetchedAt' = IF config.FetchAll /\ stampOK
                              THEN fetchedAt \cup {srcs[i].ID}
                              ELSE fetchedAt
              /\ task' = [task EXCEPT
                            ![i].stamp = StampResult(config.FetchAll, stampOK),
                            ![i].pc = IF config.FetchAll
                                      THEN AfterStamp(stampOK) ELSE "lock"]
    /\ handed' = handed \cup {i}
    /\ UNCHANGED <<retrieverVars, dedupVars, parseVars, clockVars, rmVars,
                   config, subs, fileUrls, mainVars,
                   queue, mu, allConfigs, totalRaw, doneCount, outVars,
                   fetchCalls>>

\* faulty variant: Lock never blocks
MutexFreeAlways == TRUE
\* mu.Lock() returns only while no goroutine holds mu
MutexFree == mu = 0

\* mu.Lock() and the reads of allConfigs and totalRaw
TaskLock(i) ==
    /\ task[i].pc = "lock"
    /\ MutexFree
    /\ mu' = i
    /\ task' = [task EXCEPT ![i].pc = "crit",
                            ![i].seenConfigs = allConfigs,
                            ![i].seenRaw = totalRaw]
    /\ UNCHANGED <<retrieverVars, dedupVars, parseVars, clockVars, rmVars,
                   config, dbVars, fileUrls, mainVars, queue, allConfigs,
                   totalRaw, failedCount, doneCount, outVars, fetchCalls, handed>>

\* the writes of allConfigs and totalRaw and mu.Unlock()
TaskUnlock(i) ==
    /\ task[i].pc = "crit"
    /\ allConfigs' = task[i].seenConfigs \o task[i].dbConfigs
    /\ totalRaw' = task[i].seenRaw + Len(task[i].rawLinks)
    /\ mu' = 0
    /\ task' = [task EXCEPT ![i].pc = "done", ![i].outcome = "ok",
                            ![i].seenConfigs = <<>>, ![i].seenRaw = 0]
    /\ UNCHANGED <<retrieverVars, dedupVars, parseVars, clockVars, rmVars,
                   config, dbVars, fileUrls, mainVars, queue, failedCount,
                   doneCount, outVars, fetchCalls, handed>>

(***************************************************************************)
(* The single-source modes (--id, --url).                                  *)
(***************************************************************************)
\* fetchSingle up to the call of doFetch
fetchSingle ==
    /\ pc = "run"
    /\ ~config.FetchAll
    /\ config.FileInput = ""
    /\ IF config.SubscriptionID # 0
       THEN IF config.SubscriptionID \in DOMAIN subs
            THEN LET dbSub == subs[config.SubscriptionID]
                 IN  /\ srcs' = <<Source(dbSub.ID, dbSub.URL, dbSub.UserAgent.String)>>
                     /\ pc' = "dofetch"
                     /\ result' = result
            ELSE Return("NotFound") /\ srcs' = srcs
       ELSE /\ srcs' = <<Source(0, config.SubscriptionURL, "")>>
            /\ pc' = "dofetch"
            /\ result' = result
    /\ UNCHANGED <<retrieverVars, dedupVars, parseVars, clockVars, rmVars,
                   config, dbVars, fileUrls, workers, next, poolVars,
                   sharedVars, report, outFile, fetchCalls, handed>>

\* doFetch: sub.FetchAll() and parseLinks
doFetchRetrieve ==
    /\ pc = "dofetch"
    /\ \E resp \in FetchResponses :
         LET r == FetchAll(SubToFetch(srcs[1]), resp)
             dbConfigs == parseLinks(r.links, OwnerOf(srcs[1]), now)
             called == [task EXCEPT ![1].sub = r.sub, ![1].called = TRUE,
                                    ![1].sent = r.sent, ![1].header = r.header]
         IN  IF r.err # NoErr
             THEN /\ Return("FetchError")
                  /\ task' = [called EXCEPT ![1].outcome = "fetchErr",
                                            ![1].err = r.err]
             ELSE IF Len(dbConfigs) = 0
             THEN /\ Return("nil")
                  /\ task' = [called EXCEPT ![1].outcome = "ok",
                                            ![1].rawLinks = r.links,
                                            ![1].at = now]
             ELSE /\ pc' = "dopersist"
                  /\ result' = result
                  /\ task' = [called EXCEPT ![1].rawLinks = r.links,
                                            ![1].dbConfigs = dbConfigs,
                                            ![1].at = now]
    /\ fetchCalls' = [fetchCalls EXCEPT ![srcs[1].URL] = @ + 1]
    /\ UNCHANGED <<retrieverVars, dedupVars, parseVars, clockVars, rmVars,
                   config, dbVars, fileUrls, srcs,
                   workers, next, queue, sharedVars, report, outFile, handed>>

\* doFetch: the upsert, the last-fetched timestamp and the output file
doFetchPersist ==
    /\ pc = "dopersist"
    /\ \E upsertOK \in BOOLEAN, stampOK \in BOOLEAN, writeOK \in BOOLEAN :
         IF ~upsertOK
         THEN /\ Return("StoreError")
              /\ task' = [task EXCEPT ![1].outcome = "storeErr"]
              /\ UNCHANGED <<store, fetchedAt, outFile>>
         ELSE /\ store' = UpsertSubscriptionConfigs(store, task[1].dbConfigs)
              /\ fetchedAt' = IF OwnerOf(srcs[1]).Valid /\ stampOK
                              THEN fetchedAt \cup {srcs[1].ID}
                              ELSE fetchedAt
              /\ task' = [task EXCEPT
                            ![1].outcome = "ok",
                            ![1].stamp = StampResult(OwnerOf(srcs[1]).Valid,
                                                     stampOK)]
              /\ IF config.OutputFile # ""
                 THEN IF ~writeOK
                      THEN Return("SaveFileError") /\ outFile' = outFile
                      ELSE /\ outFile' = [written |-> TRUE,
                                          content |-> FileContent(task[1].dbConfigs)]
                           /\ Return("nil")
                 ELSE Return("nil") /\ outFile' = outFile
    /\ handed' = handed \cup {1}
    /\ UNCHANGED <<retrieverVars, dedupVars, parseVars, clockVars, rmVars,
                   config, subs, fileUrls, srcs,
                   workers, next, queue, sharedVars, report, fetchCalls>>

(***************************************************************************)
(* The parseLinks specification: one call on a list of raw links.          *)
(***************************************************************************)
\* raw links: one a protocol parses, one no protocol recognises, one on
\* which the parser faults, a blank one and one with a leading blank
RawLinkInputs == {<<ChV>>, <<ChX>>, <<ChP>>, <<SP>>, <<SP, ChV>>}
\* the subID argument: no owner, or subscription 1
SubIDInputs == {NullInt64(0, FALSE), NullInt64(1, TRUE)}

NotParsed == [called |-> FALSE, configs |-> <<>>]

ParseInit ==
    /\ praw \in [links : SeqsUpTo(RawLinkInputs, MaxRawLinks),
                 subID : SubIDInputs]
    /\ pout = NotParsed

\* the state of the parseLinks variables in the other specifications
ParseIdle ==
    /\ praw = [links |-> <<>>, subID |-> NullInt64(0, FALSE)]
    /\ pout = NotParsed

\* one call fc.parseLinks(rawLinks, subID)
ParseCall ==
    /\ ~pout.called
    /\ pout' = [called |-> TRUE,
                configs |-> parseLinks(praw.links, praw.subID, now)]
    /\ UNCHANGED <<praw, retrieverVars, dedupVars, clockVars, rmVars, fetchVars>>

(***************************************************************************)
(* The clock, and runs of the command one after another on one database.   *)
(***************************************************************************)
\* the clock stands at 1 and no run has ended
ClockIdle ==
    /\ now = 1
    /\ runs = <<>>

\* the latest time the clock reaches
MaxClock == MaxReruns + 2

\* time passes
Tick ==
    /\ now < MaxClock
    /\ now' = now + 1
    /\ UNCHANGED <<runs, retrieverVars, dedupVars, parseVars, rmVars, fetchVars>>

\* the configurations of the runs on one database: --id 1, --url with the
\* URL of subscription 1, --all and --file, one worker, no output file
RerunConfigs ==
    {c \in Configs :
        /\ c.Workers = WorkersMin
        /\ c.OutputFile = ""
        /\ c.SubscriptionID \in {0, 1}
        /\ c.SubscriptionURL \in {EmptyUrl, Url(1)}
        /\ \/ c.SubscriptionID # 0
           \/ c.SubscriptionURL # EmptyUrl
           \/ c.FetchAll
           \/ c.FileInput # ""}

\* what is kept of a run that ended: its configuration, its outcome, and
\* the configs its sources had handed to the upsert that succeeded
RunRecord ==
    [config |-> config, result |-> result,
     upserted |-> {task[i].dbConfigs :
                      i \in {j \in 1..MaxSubs : /\ j \in handed
                                               /\ task[j].outcome = "ok"}}]

\* the command is run again (NewFetchCommand): a new FetchCommand with its
\* own configuration, on the database the earlier runs left
Rerun ==
    /\ pc = "done"
    /\ Len(runs) < MaxReruns
    /\ runs' = Append(runs, RunRecord)
    /\ config' \in RerunConfigs
    /\ pc' = "validate"
    /\ srcs' = <<>>
    /\ workers' = 0
    /\ next' = 1
    /\ queue' = <<>>
    /\ task' = [i \in 1..MaxSubs |-> NewTask]
    /\ mu' = 0
    /\ allConfigs' = <<>>
    /\ totalRaw' = 0
    /\ failedCount' = 0
    /\ doneCount' = 0
    /\ report' = NoReport
    /\ outFile' = NoFile
    /\ result' = "running"
    /\ fetchCalls' = [u \in AllUrls |-> 0]
    /\ handed' = {}
    /\ UNCHANGED <<now, dbVars, fileUrls, retrieverVars, dedupVars, parseVars,
                   rmVars>>

(***************************************************************************)
(* The rm command (RmCmd).                                                 *)
(***************************************************************************)
\* strings.ToLower on the ASCII range
ToLower(s) == [k \in DOMAIN s |-> IF s[k] \in 65..90 THEN s[k] + 32 ELSE s[k]]

\* (*bufio.Reader).ReadString(delim) on the input in: what it reads, up to
\* and with the first delim, or all of in when it holds no delim (the error
\* is dropped by the caller)
ReadString(in, delim) ==
    LET k == IndexByte(in, delim)
    IN  IF k = 0 THEN in ELSE SubSeq(in, 1, k)

\* faulty variant: every answer that begins with "y" confirms
ConfirmedByPrefix(answer) ==
    LET a == TrimSpace(ToLower(answer))
    IN  a # <<>> /\ Head(a) = ChY
\* the answer read from the prompt confirms the deletion:
\* answer = strings.TrimSpace(strings.ToLower(answer)) is "y" or "yes"
Confirmed(answer) ==
    LET a == TrimSpace(ToLower(answer))
    IN  ~(a # <<ChY>> /\ a # <<ChY, ChE, ChS>>)

\* database.DeleteSubscription(id) on the subscriptions db, the table st of
\* configs and the timestamps ts: the subscription, its configs and its
\* timestamp are removed
DeleteSubscription(db, st, ts, id) ==
    [subs |-> [k \in DOMAIN db \ {id} |-> db[k]],
     store |-> SelectSeq(st, LAMBDA row : row.SubscriptionID # NullInt64(id, TRUE)),
     fetchedAt |-> ts \ {id}]

\* the argument of rm as strconv.ParseInt returns it: the id of a stored
\* subscription or of none, or an error for an argument that is no number
RmArgs ==
    {[ok |-> TRUE, id |-> i] : i \in 1..(MaxSubs + 1)}
    \cup {[ok |-> FALSE, id |-> 0]}
\* the bytes the user types at the prompt
AnswerAlphabet == {ChY, ChYUp, ChE, ChS, SP, NL}
\* the tables of configs rm runs on: none, and one with a config of
\* subscription 1, a config of subscription 2 and a config of no subscription
RmStores ==
    {<<>>,
     UpsertSubscriptionConfigs(<<>>,
         parseLinks(<< <<ChV>> >>, NullInt64(1, TRUE), 1)
         \o parseLinks(<< <<ChX>> >>, NullInt64(2, TRUE), 1)
         \o parseLinks(<< <<ChP>> >>, NullInt64(0, FALSE), 1))}

RmInit ==
    /\ subs = [id \in 1..MaxSubs |-> DbSubscription(id, TRUE)]
    /\ store \in RmStores
    /\ rm \in {[arg |-> a, yes |-> y, stdin |-> t,
                before |-> [subs |-> subs, store |-> store],
                pc |-> "start", result |-> "running", prompted |-> FALSE,
                answer |-> <<>>] :
                  a \in RmArgs, y \in BOOLEAN,
                  t \in SeqsUpTo(AnswerAlphabet, MaxAnswerLen)}

\* the state of the rm variable in the other specifications
RmIdle ==
    rm = [arg |-> [ok |-> FALSE, id |-> 0], yes |-> FALSE, stdin |-> <<>>,
          before |-> [subs |-> <<>>, store |-> <<>>],
          pc |-> "idle", result |-> "running", prompted |-> FALSE,
          answer |-> <<>>]

\* RunE up to the prompt: the id is parsed; without --yes the subscription
\* is looked up and, when found, shown with the confirmation prompt
RmStart ==
    /\ rm.pc = "start"
    /\ IF ~rm.arg.ok
       THEN rm' = [rm EXCEPT !.pc = "done", !.result = "InvalidID"]
       ELSE IF rm.yes THEN rm' = [rm EXCEPT !.pc = "delete"]
       ELSE \E lookupOK \in BOOLEAN :
              IF ~lookupOK
              THEN rm' = [rm EXCEPT !.pc = "done", !.result = "StoreError"]
              ELSE IF rm.arg.id \notin DOMAIN subs
              THEN rm' = [rm EXCEPT !.pc = "done", !.result = "NotFound"]
              ELSE rm' = [rm EXCEPT !.pc = "prompt", !.prompted = TRUE]
    /\ UNCHANGED <<retrieverVars, dedupVars, parseVars, clockVars, fetchVars>>

\* the answer is read; anything but "y" or "yes" cancels
RmConfirm ==
    /\ rm.pc = "prompt"
    /\ LET answer == ReadString(rm.stdin, NL)
       IN  IF Confirmed(answer)
           THEN rm' = [rm EXCEPT !.pc = "delete", !.answer = answer]
           ELSE rm' = [rm EXCEPT !.pc = "done", !.result = "nil",
                                 !.answer = answer]
    /\ UNCHANGED <<retrieverVars, dedupVars, parseVars, clockVars, fetchVars>>

\* database.DeleteSubscription(id) and the return
RmDelete ==
    /\ rm.pc = "delete"
    /\ \E deleteOK \in BOOLEAN :
         IF ~deleteOK
         THEN /\ rm' = [rm EXCEPT !.pc = "done", !.result = "StoreError"]
              /\ UNCHANGED dbVars
         ELSE LET db == DeleteSubscription(subs, store, fetchedAt, rm.arg.id)
              IN  /\ subs' = db.subs
                  /\ store' = db.store
                  /\ fetchedAt' = db.fetchedAt
                  /\ rm' = [rm EXCEPT !.pc = "done", !.result = "nil"]
    /\ UNCHANGED <<retrieverVars, dedupVars, parseVars, clockVars, config,
                   fileUrls, mainVars, poolVars, sharedVars, outVars,
                   fetchCalls, handed>>

(***************************************************************************)
(* The specifications.                                                     *)
(***************************************************************************)
\* the steps of the main goroutine
Main ==
    \/ validateFlags
    \/ fetchAllSubscriptions
    \/ fetchFromFile
    \/ fetchSingle
    \/ doFetchRetrieve
    \/ doFetchPersist
    \/ Submit
    \/ StopAndWait
    \/ Finish

\* the steps of the unit of work of source i
Task(i) ==
    \/ TaskStart(i)
    \/ TaskFetch(i)
    \/ TaskPersist(i)
    \/ TaskLock(i)
    \/ TaskUnlock(i)

Init == FetchInit /\ RetrieverIdle /\ DedupIdle /\ ParseIdle /\ ClockIdle /\ RmIdle

Next ==
    \/ validateFlags
    \/ fetchAllSubscriptions
    \/ fetchFromFile
    \/ fetchSingle
    \/ doFetchRetrieve
    \/ doFetchPersist
    \/ Submit
    \/ StopAndWait
    \/ Finish
    \/ \E i \in 1..MaxSubs : TaskStart(i)
    \/ \E i \in 1..MaxSubs : TaskFetch(i)
    \/ \E i \in 1..MaxSubs : TaskPersist(i)
    \/ \E i \in 1..MaxSubs : TaskLock(i)
    \/ \E i \in 1..MaxSubs : TaskUnlock(i)

\* a run of the fetch command
Spec == Init /\ [][Next]_vars

\* the runs of at most MaxLiveSources sources, the enabled subscriptions
\* being the first of the database
LiveInit ==
    /\ Init
    /\ config.FetchAll =>
          \E n \in 0..MaxLiveSources :
              \A id \in 1..MaxSubs : subs[id].Enabled <=> id <= n
    /\ Len(fileUrls) <= MaxLiveSources

\* a run in which the main goroutine and every worker keep being scheduled
\* and every call they make returns
FairSpec ==
    /\ LiveInit
    /\ [][Next]_vars
    /\ WF_vars(Main)
    /\ \A i \in 1..MaxSubs : WF_vars(Task(i))

RetrieverSpecInit ==
    RetrieverInit /\ DedupIdle /\ FetchIdle /\ ParseIdle /\ ClockIdle /\ RmIdle

RetrieverNext == \E e \in Endpoints : RetrieverFetchAll(e)

\* calls of FetchAll against a server
RetrieverSpec == RetrieverSpecInit /\ [][RetrieverNext]_vars

DedupSpecInit ==
    DedupInit /\ RetrieverIdle /\ FetchIdle /\ ParseIdle /\ ClockIdle /\ RmIdle

DedupNext == \E verbose \in BOOLEAN : DedupCall(verbose)

\* calls of RemoveDuplicate on a Subscription
DedupSpec == DedupSpecInit /\ [][DedupNext]_vars

\* the URLs of the Subscriptions fetched in the URL specification: an
\* absolute one, "://invalid", "example.com/sub" and ""
UrlInputs == {Url(1), BadUrl, RelUrl, EmptyUrl}
\* their UserAgent fields: none, or that of TestFetchAll_CustomUserAgent
AgentInputs == {"", "CustomAgent/1.0"}

UrlSpecInit ==
    /\ srvText \in {<<>>, <<ChV>>}
    /\ srvStatus \in Statuses
    /\ rsub \in {[e \in Endpoints |-> NewSubscription(u[e], ua, "")] :
                    u \in [Endpoints -> UrlInputs], ua \in AgentInputs}
    /\ rret = [e \in Endpoints |-> NotCalled]
    /\ DedupIdle /\ FetchIdle /\ ParseIdle /\ ClockIdle /\ RmIdle

\* calls of FetchAll on Subscriptions with valid and invalid URLs
UrlSpec == UrlSpecInit /\ [][RetrieverNext]_vars

\* a command about to run on a database with no config and no timestamp
FreshRun ==
    /\ store = <<>>
    /\ fetchedAt = {}
    /\ pc = "validate"
    /\ srcs = <<>>
    /\ workers = 0
    /\ next = 1
    /\ queue = <<>>
    /\ task = [i \in 1..MaxSubs |-> NewTask]
    /\ mu = 0
    /\ allConfigs = <<>>
    /\ totalRaw = 0
    /\ failedCount = 0
    /\ doneCount = 0
    /\ report = NoReport
    /\ outFile = NoFile
    /\ result = "running"
    /\ fetchCalls = [u \in AllUrls |-> 0]
    /\ handed = {}

StoreSpecInit ==
    /\ config \in RerunConfigs
    /\ subs = [id \in 1..MaxSubs |-> DbSubscription(id, id = 1)]
    /\ fileUrls = <<Url(1)>>
    /\ FreshRun
    /\ RetrieverIdle /\ DedupIdle /\ ParseIdle /\ ClockIdle /\ RmIdle

StoreNext ==
    \/ validateFlags
    \/ fetchAllSubscriptions
    \/ fetchFromFile
    \/ fetchSingle
    \/ doFetchRetrieve
    \/ doFetchPersist
    \/ Submit
    \/ StopAndWait
    \/ Finish
    \/ \E i \in 1..MaxSubs : TaskStart(i)
    \/ \E i \in 1..MaxSubs : TaskFetch(i)
    \/ \E i \in 1..MaxSubs : TaskPersist(i)
    \/ \E i \in 1..MaxSubs : TaskLock(i)
    \/ \E i \in 1..MaxSubs : TaskUnlock(i)
    \/ Rerun
    \/ Tick

\* runs of the command one after another on one database, in the four
\* modes, while time passes
StoreSpec == StoreSpecInit /\ [][StoreNext]_vars

\* the --useragent override, and the user agent stored with a subscription
OverrideInputs == {"", "Override/1.0"}
StoredAgentInputs == {"", "Stored/1.0"}

\* one-worker runs with no output file, in every mode, with and without
\* the override
AgentConfigs ==
    {[c EXCEPT !.UserAgent = ua] :
        c \in {d \in Configs : /\ d.Workers = WorkersMin
                               /\ d.OutputFile = ""
                               /\ d.SubscriptionID \in {0, 1}},
        ua \in OverrideInputs}

\* subscriptions 1 and 2 are enabled, each stored with or without a user
\* agent; the file of --file holds their URLs
AgentSpecInit ==
    /\ config \in AgentConfigs
    /\ subs \in {[id \in 1..MaxSubs |->
                    [DbSubscription(id, id \in {1, 2})
                        EXCEPT !.UserAgent = NullString(ua[id])]] :
                    ua \in [1..MaxSubs -> StoredAgentInputs]}
    /\ fileUrls = <<Url(1), Url(2)>>
    /\ FreshRun
    /\ RetrieverIdle /\ DedupIdle /\ ParseIdle /\ ClockIdle /\ RmIdle

\* a run of the fetch command with user agents in play
AgentSpec == AgentSpecInit /\ [][Next]_vars

ParseSpecInit ==
    ParseInit /\ RetrieverIdle /\ DedupIdle /\ FetchIdle /\ ClockIdle /\ RmIdle

ParseNext == ParseCall \/ Tick

\* a call of parseLinks at some time
ParseSpec == ParseSpecInit /\ [][ParseNext]_vars

\* Wireguard links: with no fragment, with the fragment "a", with the
\* escaped fragment "%41", with the fragment "%25" whose unescaped form is
\* no valid escape, and with the invalid fragment "%"; and a link of
\* another protocol
WireLinks ==
    {<<ChW, ChA, ChAt, ChA>>,
     <<ChW, ChA, ChAt, ChA, ChHash, ChA>>,
     <<ChW, ChA, ChAt, ChA, ChHash, ChPct, Ch4, Ch1>>,
     <<ChW, ChA, ChAt, ChA, ChHash, ChPct, Ch2, Ch5>>,
     <<ChW, ChA, ChAt, ChA, ChHash, ChPct>>,
     <<ChV>>}

WireSpecInit ==
    /\ praw \in [links : SeqsUpTo(WireLinks, MaxRawLinks), subID : SubIDInputs]
    /\ pout = NotParsed
    /\ RetrieverIdle /\ DedupIdle /\ FetchIdle /\ ClockIdle /\ RmIdle

\* a call of parseLinks on Wireguard links
WireSpec == WireSpecInit /\ [][ParseNext]_vars

RmSpecInit ==
    /\ RmInit
    /\ config = [SubscriptionID |-> 0, SubscriptionURL |-> EmptyUrl,
                 FetchAll |-> FALSE, FileInput |-> "", Workers |-> 0,
                 OutputFile |-> "", UserAgent |-> "", Proxy |-> ""]
    /\ fileUrls = <<>>
    /\ fetchedAt = {}
    /\ pc = "idle"
    /\ srcs = <<>>
    /\ workers = 0
    /\ next = 1
    /\ queue = <<>>
    /\ task = [i \in 1..MaxSubs |-> NewTask]
    /\ mu = 0
    /\ allConfigs = <<>>
    /\ totalRaw = 0
    /\ failedCount = 0
    /\ doneCount = 0
    /\ report = NoReport
    /\ outFile = NoFile
    /\ result = "running"
    /\ fetchCalls = [u \in AllUrls |-> 0]
    /\ handed = {}
    /\ RetrieverIdle /\ DedupIdle /\ ParseIdle /\ ClockIdle

RmNext == RmStart \/ RmConfirm \/ RmDelete

\* a run of the rm command
RmSpec == RmSpecInit /\ [][RmNext]_vars

\* link lists a server holds: one that repeats a link, one that repeats it
\* behind another link, and one whose second link the core parses
BodyTexts == {<<ChV, NL, ChV>>, <<ChV, NL, ChX, NL, ChV>>, <<ChX, NL, ChV>>}

\* one-worker runs in every mode, with and without an output file
BodyConfigs ==
    {c \in Configs : c.Workers = WorkersMin /\ c.SubscriptionID \in {0, 1}}

\* subscriptions 1 and 2 are enabled and the file of --file holds their
\* URLs; the servers hold one of the link lists
BodySpecInit ==
    /\ config \in BodyConfigs
    /\ subs = [id \in 1..MaxSubs |-> DbSubscription(id, id \in {1, 2})]
    /\ fileUrls = <<Url(1), Url(2)>>
    /\ FreshRun
    /\ srvText \in BodyTexts
    /\ srvStatus = 200
    /\ rsub = [e \in Endpoints |-> NewSubscription(<<"http", e>>, "", "")]
    /\ rret = [e \in Endpoints |-> NotCalled]
    /\ DedupIdle /\ ParseIdle /\ ClockIdle /\ RmIdle

\* a run of the fetch command against servers whose lists repeat links
BodySpec == BodySpecInit /\ [][Next]_vars

(***************************************************************************)
(* Properties of the fan-out modes (--all, --file).                        *)
(***************************************************************************)
\* the run is in a fan-out mode and has created its pool
FanOutRun == (config.FetchAll \/ config.FileInput # "") /\ srcs # <<>>
Sources == 1..Len(srcs)
FetchFailed == {i \in Sources : task[i].outcome = "fetchErr"}
StoreFailed == {i \in Sources : task[i].outcome = "storeErr"}
Succeeded == {i \in Sources : task[i].outcome = "ok"}
\* the pool has drained and StopAndWait has returned
Completed == FanOutRun /\ pc \in {"finish", "done"}
Min(a, b) == IF a < b THEN a ELSE b
\* how often x occurs in the sequence s
Count(s, x) == Cardinality({k \in DOMAIN s : s[k] = x})

RECURSIVE SumOver(_, _)
\* the sum of f[i] over the finite set S
SumOver(S, f) ==
    IF S = {} THEN 0
    ELSE LET i == CHOOSE j \in S : TRUE IN f[i] + SumOver(S \ {i}, f)

\* a config whose link no protocol decoded
Undecoded(c) == ~c.Protocol.Valid

\* C1 as stated: a fan-out run that reached its pool returns an error if and
\* only if at least one source failed.
C1_FailsIffSourceFailed ==
    (FanOutRun /\ pc = "done") =>
        (result # "nil" <=> FetchFailed \cup StoreFailed # {})

\* C1 amended: a fan-out run that reached its pool returns an error if and
\* only if at least one source failed or the write of the output file
\* failed; that write is attempted only with an output path and at least one
\* config; links that failed to decode never make the run fail.
C1_FailsIffSourceOrFileFailed ==
    (FanOutRun /\ pc = "done") =>
        /\ result # "nil" <=>
             (FetchFailed \cup StoreFailed # {} \/ result = "SaveFileError")
        /\ result = "SaveFileError" =>
             (config.OutputFile # "" /\ allConfigs # <<>> /\ ~outFile.written)

\* a run ended with success although a persisted link had failed to decode
C1_Witness ==
    /\ FanOutRun /\ pc = "done" /\ result = "nil"
    /\ Succeeded = Sources
    /\ \E k \in DOMAIN allConfigs : Undecoded(allConfigs[k])

\* the configs of source i are in the store
Persisted(i) ==
    \A k \in DOMAIN task[i].dbConfigs :
        task[i].dbConfigs[k].ConfigLink \in StoredLinks(store)

\* sources past a successful upsert
PastUpsert ==
    {i \in Sources : /\ task[i].dbConfigs # <<>>
                     /\ task[i].pc \in {"lock", "crit", "done"}
                     /\ task[i].outcome # "storeErr"}

\* C2 as stated: at completion the failure count is the number of sources
\* whose fetch failed, every other source with a link has had its configs
\* handed to the upsert, and nothing persisted is missing from the store.
C2_FailureCountIsFetchFailures ==
    /\ Completed =>
         /\ failedCount = Cardinality(FetchFailed)
         /\ \A i \in Sources \ FetchFailed :
              task[i].rawLinks # <<>> => i \in handed
    /\ \A i \in PastUpsert : Persisted(i)

\* C2 amended: at completion the failure count is the number of sources whose
\* fetch failed plus the number whose upsert failed; every source whose fetch
\* succeeded with a link has had its configs handed to the upsert; and in
\* every state the configs of every source past a successful upsert are in
\* the store, whatever happened to the other sources.
C2_FailureIsolation ==
    /\ Completed =>
         /\ failedCount = Cardinality(FetchFailed) + Cardinality(StoreFailed)
         /\ \A i \in Sources \ FetchFailed :
              task[i].rawLinks # <<>> => i \in handed
    /\ \A i \in PastUpsert : Persisted(i)

\* three sources on two workers, one answered with HTTP 404: two successes,
\* one failure, a failing run, and the configs of the two in the store
C2_Witness ==
    /\ FanOutRun /\ pc = "done" /\ Len(srcs) = 3 /\ workers = 2
    /\ \E i \in Sources :
         /\ FetchFailed = {i}
         /\ task[i].err = Err("HTTPStatus", 404)
         /\ Succeeded = Sources \ {i}
    /\ \A i \in Succeeded : task[i].rawLinks # <<>> /\ i \in handed /\ Persisted(i)
    /\ failedCount = 1
    /\ result = "SourcesFailed"

\* C3: once the pool has drained, the total of raw links is the sum over the
\* successful sources, the aggregate list holds every config of a successful
\* source as often as those sources hold it, and the failure count is the
\* number of failed sources; and at no time are two workers between mu.Lock
\* and mu.Unlock.
C3_TotalsOrderIndependent ==
    /\ Cardinality({i \in Sources : task[i].pc = "crit"}) <= 1
    /\ Completed =>
         /\ totalRaw = SumOver(Succeeded, [i \in Sources |-> Len(task[i].rawLinks)])
         /\ Len(allConfigs) =
              SumOver(Succeeded, [i \in Sources |-> Len(task[i].dbConfigs)])
         /\ \A j \in Succeeded : \A k \in DOMAIN task[j].dbConfigs :
              LET c == task[j].dbConfigs[k]
              IN  Count(allConfigs, c) =
                    SumOver(Succeeded,
                            [i \in Sources |-> Count(task[i].dbConfigs, c)])
         /\ failedCount = Cardinality(Sources \ Succeeded)

\* a drained pool of two workers or more with two sources aggregated and
\* one failed
C3_Witness ==
    /\ Completed /\ workers >= 2
    /\ Cardinality(Succeeded) = 2
    /\ \A i \in Succeeded : task[i].rawLinks # <<>>
    /\ Cardinality(FetchFailed \cup StoreFailed) = 1
    /\ totalRaw = 4

\* C4: in a fan-out run the number of units of work in flight never exceeds
\* the smaller of the configured worker count and the number of sources.
C4_InFlightBounded ==
    (config.FetchAll \/ config.FileInput # "") =>
        Cardinality(Running) <= Min(config.Workers, Len(srcs))

\* two of three sources in flight on a pool of two workers
C4_Witness ==
    /\ FanOutRun /\ config.Workers = 2 /\ Len(srcs) = 3
    /\ Cardinality(Running) = 2
    /\ queue # <<>>

\* every submitted unit of work has finished
AllFinished == \A i \in Sources : task[i].pc = "done"

\* C5: in a fan-out run the totals are reported, the output file is written
\* and the outcome is decided only when every unit of work has finished;
\* and when every goroutine keeps running and every call returns, every
\* submitted unit of work finishes and the totals are reported.
C5_DrainBeforeTotals ==
    /\ [](FanOutRun =>
            /\ (report.printed \/ outFile.written \/ result # "running")
                  => AllFinished
            /\ pc \in {"finish", "done"} => AllFinished)
    /\ \A i \in 1..MaxSubs : (task[i].pc = "queued") ~> (task[i].pc = "done")
    /\ (pc = "submit") ~> report.printed

\* a run of two sources ended with its totals reported and its file written
C5_Witness ==
    /\ FanOutRun /\ pc = "done" /\ Len(srcs) = 2
    /\ report.printed /\ outFile.written
    /\ FetchFailed # {}
    /\ AllFinished

\* C6: no URL is handed to the Retriever twice; the failure counter counts
\* each failed source once; and when a run that has sources ends, each of
\* its sources was handed to the Retriever once, whichever of them failed.
C6_NoRetry ==
    /\ \A u \in AllUrls : fetchCalls[u] <= 1
    /\ failedCount = IF FanOutRun
                     THEN Cardinality(FetchFailed) + Cardinality(StoreFailed)
                     ELSE 0
    /\ (pc = "done" /\ srcs # <<>>) =>
          \A i \in Sources : fetchCalls[srcs[i].URL] = 1

\* a run ended after the first of its three sources failed in the Retriever
\* and the two behind it were fetched
C6_Witness ==
    /\ FanOutRun /\ pc = "done" /\ Len(srcs) = 3
    /\ 1 \in FetchFailed
    /\ Succeeded = {2, 3}
    /\ failedCount = 1
    /\ \A i \in Sources : fetchCalls[srcs[i].URL] = 1

(***************************************************************************)
(* Properties of the Retriever and of the Deduplicator.                    *)
(***************************************************************************)
\* both endpoints were fetched and both calls returned links
BothFetched == \A e \in Endpoints : rret[e].called /\ rret[e].err = NoErr

\* C7 as stated: for every link list, FetchAll returns the same links from
\* the base64 encoding of the list as from the list itself.
C7_RoundTripEveryList ==
    BothFetched => rret["b64"].links = rret["plain"].links

\* C7 amended: for every link list that Base64Decode does not itself accept
\* as base64, FetchAll returns the same links from the base64 encoding of
\* the list as from the list itself.
C7_RoundTripUndecodableList ==
    (BothFetched /\ ~Base64Decode(srvText).ok) =>
        rret["b64"].links = rret["plain"].links

\* a list of two links fetched in both forms
C7_Witness ==
    /\ BothFetched
    /\ ~Base64Decode(srvText).ok
    /\ rret["b64"].body # rret["plain"].body
    /\ Len(rret["plain"].links) = 2
    /\ rret["b64"].links = rret["plain"].links

\* the text FetchAll splits: the decoded body, or the body when it is not base64
DecodedText(body) ==
    IF Base64Decode(body).ok THEN Base64Decode(body).bytes ELSE body

NewlinePositions(t) == {k \in DOMAIN t : t[k] = NL}

\* the n-th line of t: what lies between its (n-1)-th and its n-th newline
LineAt(t, n) ==
    LET P == NewlinePositions(t)
        pos(m) == IF m = 0 THEN 0
                  ELSE IF m > Cardinality(P) THEN Len(t) + 1
                  ELSE CHOOSE k \in P : Cardinality({j \in P : j < k}) = m - 1
    IN  SubSeq(t, pos(n - 1) + 1, pos(n) - 1)

\* l from its first to its last byte that is not white space
Trimmed(l) ==
    LET Q == {k \in DOMAIN l : ~IsSpace(l[k])}
    IN  IF Q = {} THEN <<>>
        ELSE SubSeq(l, CHOOSE k \in Q : \A j \in Q : k <= j,
                       CHOOSE k \in Q : \A j \in Q : k >= j)

\* the trimmed lines of t that are not empty, in their order
ExpectedLinks(t) ==
    SelectSeq([n \in 1..(Cardinality(NewlinePositions(t)) + 1) |->
                  Trimmed(LineAt(t, n))],
              LAMBDA l : l # <<>>)

\* C8: whenever FetchAll returns links, they are the trimmed non-empty lines
\* of the decoded body in their order, and none of them is empty or begins
\* or ends with white space.
C8_TrimmedNonEmptyLines ==
    \A e \in Endpoints :
        (rret[e].called /\ rret[e].err = NoErr) =>
            /\ rret[e].links = ExpectedLinks(DecodedText(rret[e].body))
            /\ \A k \in DOMAIN rret[e].links :
                 LET l == rret[e].links[k]
                 IN  l # <<>> /\ ~IsSpace(l[1]) /\ ~IsSpace(l[Len(l)])

\* a body with a line of white space between two links
C8_Witness ==
    /\ rret["plain"].called /\ rret["plain"].err = NoErr
    /\ Len(rret["plain"].links) = 2
    /\ \E n \in 1..Len(srvText) :
         LineAt(srvText, n) # <<>> /\ Trimmed(LineAt(srvText, n)) = <<>>

Range(s) == {s[k] : k \in DOMAIN s}
\* the place of the first occurrence of x in s
FirstIndex(s, x) == CHOOSE k \in DOMAIN s : s[k] = x /\ \A j \in 1..(k - 1) : s[j] # x

\* C9: after RemoveDuplicate, with verbose set or not and called once or
\* again, ConfigLinks holds each distinct link of the original sequence once,
\* in the order of the first occurrences.
C9_StableDedup ==
    dcalls # <<>> =>
        LET out == dsub.ConfigLinks
        IN  /\ Len(out) = Cardinality(Range(dorig))
            /\ Range(out) = Range(dorig)
            /\ \A a \in DOMAIN out : \A b \in DOMAIN out :
                 a < b => FirstIndex(dorig, out[a]) < FirstIndex(dorig, out[b])

\* a sequence with a repeat, deduplicated twice with differing verbose flags
C9_Witness ==
    /\ Len(dcalls) = 2 /\ dcalls[1] # dcalls[2]
    /\ Len(dorig) = 4 /\ dorig[1] = dorig[3]
    /\ Len(dsub.ConfigLinks) = 3

\* C10: when a response arrives, FetchAll returns the error carrying its
\* status and no links if the status is outside 200..299, and never that
\* error if the status is inside.
C10_StatusError ==
    \A e \in Endpoints :
        (rret[e].called /\ rret[e].net # "sendErr") =>
            IF srvStatus \in 200..299
            THEN rret[e].err.kind # "HTTPStatus"
            ELSE rret[e].err = Err("HTTPStatus", srvStatus) /\ rret[e].links = <<>>

\* a 404 answered with the error carrying 404
C10_Witness ==
    /\ srvStatus = 404
    /\ rret["plain"].called
    /\ rret["plain"].err = Err("HTTPStatus", 404)

(***************************************************************************)
(* Properties of URL validation and of parseLinks.                         *)
(***************************************************************************)
\* C11: a call of FetchAll on a Subscription whose URL is not an absolute
\* URL returns the InvalidURL error and no links, and sends no request.
C11_NonAbsoluteUrlIsInvalidURL ==
    \A e \in Endpoints :
        (rret[e].called /\ ~IsAbs(rsub[e].Url)) =>
            /\ rret[e].err = Err("InvalidURL", 0)
            /\ rret[e].links = <<>>
            /\ ~rret[e].sent

\* the place in raw of the n-th link that is not blank
NthNonBlank(raw, n) ==
    CHOOSE k \in DOMAIN raw :
        /\ Trimmed(raw[k]) # <<>>
        /\ Cardinality({j \in 1..k : Trimmed(raw[j]) # <<>>}) = n

\* links on which the decoder returns no summary
Faulting(link) == DecodeLink(link).outcome \in {"err", "panic"}

\* C12: parseLinks returns one config per raw link that is not blank, in the
\* order of the links, each holding the trimmed link and the owner given;
\* the config of a link whose decoder returns an error or faults has no
\* protocol and no remark, and the config of a link that decodes has its
\* protocol, wherever in the list the failing links are.
C12_DecodeFailuresAbsorbed ==
    pout.called =>
        LET raw == praw.links
            out == pout.configs
        IN  /\ Len(out) = Cardinality({k \in DOMAIN raw : Trimmed(raw[k]) # <<>>})
            /\ \A n \in DOMAIN out :
                 LET link == Trimmed(raw[NthNonBlank(raw, n)])
                 IN  /\ out[n].ConfigLink = link
                     /\ out[n].SubscriptionID = praw.subID
                     /\ Faulting(link) =>
                           ~out[n].Protocol.Valid /\ ~out[n].Remark.Valid
                     /\ ~Faulting(link) =>
                           out[n].Protocol = NullString(DecodeLink(link).Protocol)

\* a link on which the parser faults, a blank one and one that decodes
C12_Witness ==
    /\ pout.called
    /\ praw.links = <<<<ChP>>, <<SP>>, <<SP, ChV>>>>
    /\ Len(pout.configs) = 2
    /\ ~pout.configs[1].Protocol.Valid
    /\ pout.configs[2].Protocol = NullString("vless")

(***************************************************************************)
(* Properties of the table of configs over several runs.                   *)
(***************************************************************************)
\* the unit of work whose configs a step hands to the upsert
Upserting(i) ==
    \/ pc = "dopersist" /\ i = 1
    \/ task[i].pc = "persist"

\* the raw links of the configs of unit i
BatchLinks(i) == {task[i].dbConfigs[k].ConfigLink : k \in DOMAIN task[i].dbConfigs}

\* C13: the table never holds two rows with the same raw link, and row ids
\* are distinct; no step removes a row or changes the id or the link of
\* one; and a step that upserts a batch leaves every row whose link is in the
\* batch, and no upsert error, with the last-seen time at which that batch
\* was fetched.
C13_RawLinkIsUpsertKey ==
    /\ [](\A k \in DOMAIN store : \A j \in DOMAIN store :
            (store[k].ConfigLink = store[j].ConfigLink \/ store[k].ID = store[j].ID)
                => k = j)
    /\ [][/\ \A k \in DOMAIN store :
               /\ k \in DOMAIN store'
               /\ store'[k].ID = store[k].ID
               /\ store'[k].ConfigLink = store[k].ConfigLink
          /\ \A i \in 1..MaxSubs :
               (/\ Upserting(i)
                /\ i \in handed' \ handed
                /\ task'[i].outcome # "storeErr") =>
                   \A k \in DOMAIN store' :
                       store'[k].ConfigLink \in BatchLinks(i) =>
                           store'[k].LastSeenAt = NullTime(task[i].at, TRUE)
         ]_vars

\* the second run fetched at time 2 the two links the first had stored at
\* time 1: still two rows, the first with its id and the later time
C13_Witness ==
    /\ Len(runs) = 1 /\ pc = "done" /\ result = "nil"
    /\ 1 \in handed /\ task[1].outcome = "ok" /\ task[1].at = 2
    /\ Len(task[1].dbConfigs) = 2
    /\ \E batch \in runs[1].upserted :
         /\ Len(batch) = 2
         /\ batch[1].LastSeenAt = NullTime(1, TRUE)
         /\ batch[1].ConfigLink = task[1].dbConfigs[1].ConfigLink
    /\ Len(store) = 2
    /\ store[1].ID = 1
    /\ store[1].LastSeenAt = NullTime(2, TRUE)

\* the run is by URL or by file: its configs have no owning subscription
UnlinkedRun == config.SubscriptionID = 0 /\ ~config.FetchAll

\* C14: no step leaves a row that has an owning subscription without one,
\* and no step of a by-URL or by-file run changes the owning subscription of
\* a row that has one.
C14_OwnerNeverCleared ==
    [][\A k \in DOMAIN store :
          store[k].SubscriptionID.Valid =>
              /\ k \in DOMAIN store'
              /\ store'[k].SubscriptionID.Valid
              /\ UnlinkedRun =>
                    store'[k].SubscriptionID = store[k].SubscriptionID
      ]_vars

\* a linked run stored two links for subscription 1 at time 1, and a later
\* unlinked run fetched them again at time 2: the rows are refreshed and
\* still owned by subscription 1
C14_Witness ==
    /\ Len(runs) = 1
    /\ runs[1].config.SubscriptionID = 1 \/ runs[1].config.FetchAll
    /\ runs[1].upserted # {}
    /\ UnlinkedRun /\ pc = "done" /\ result = "nil"
    /\ 1 \in handed /\ task[1].outcome = "ok"
    /\ \A k \in DOMAIN task[1].dbConfigs :
         ~task[1].dbConfigs[k].SubscriptionID.Valid
    /\ Len(store) = 2
    /\ \A k \in DOMAIN store :
         /\ store[k].SubscriptionID = NullInt64(1, TRUE)
         /\ store[k].LastSeenAt = NullTime(2, TRUE)

(***************************************************************************)
(* Properties of one run: validation, timestamps, user agent, owners.      *)
(***************************************************************************)
\* none of --id, --url, --all, --file is given
NoSelector ==
    /\ config.SubscriptionID = 0
    /\ config.SubscriptionURL = EmptyUrl
    /\ ~config.FetchAll
    /\ config.FileInput = ""

\* the run has called no Retriever, written nothing to the database and
\* written no output file
NoWorkDone ==
    /\ \A u \in AllUrls : fetchCalls[u] = 0
    /\ \A i \in 1..MaxSubs : ~task[i].called /\ task[i].pc = "new"
    /\ store = <<>> /\ fetchedAt = {} /\ handed = {}
    /\ ~outFile.written
    /\ srcs = <<>>

\* C15: a run with no selector, or with a worker count below 1 or above
\* 20, ends in validation with a configuration error and does no work, and
\* no other run ends with that error; the pool of a fan-out run has the
\* configured number of workers, or one per source when the sources are
\* fewer.
C15_ValidationBeforeWork ==
    LET invalid == NoSelector \/ config.Workers < 1 \/ config.Workers > 20
    IN  /\ invalid => NoWorkDone /\ pc \in {"validate", "done"}
        /\ pc # "validate" => (invalid <=> result = "ConfigurationError")
        /\ result = "ConfigurationError" => pc = "done"
        /\ FanOutRun =>
              workers = IF config.Workers <= Len(srcs) THEN config.Workers
                        ELSE Len(srcs)

\* --all with 21 workers ended in validation
C15_Witness ==
    /\ config.FetchAll /\ config.Workers = 21
    /\ \E id \in 1..MaxSubs : subs[id].Enabled
    /\ pc = "done" /\ result = "ConfigurationError"
    /\ NoWorkDone

\* the run is by the id of a stored subscription
ByIdRun == config.SubscriptionID # 0

\* C16: when a by-id run has ended whose subscription was found, whose
\* Retriever call returned no error and in which no write to the database
\* failed, the last-fetched timestamp of the subscription has been written,
\* however many links the Retriever returned.
C16_TimestampUpdatedOnSuccess ==
    (/\ ByIdRun /\ pc = "done"
     /\ task[1].called /\ task[1].err = NoErr
     /\ task[1].outcome # "storeErr" /\ task[1].stamp # "failed") =>
        config.SubscriptionID \in fetchedAt

\* C17: a by-id run in which the write of the last-fetched timestamp failed
\* ends as one in which it succeeded: with no error and the output file
\* written when one is configured, unless the write of the file itself
\* fails; and in all-enabled mode a source whose timestamp write failed is
\* never counted as failed, goes on to the aggregation, and at completion
\* is a success whose configs and raw links are in the totals.
C17_StampFailureIsWarning ==
    /\ (ByIdRun /\ pc = "done" /\ task[1].stamp = "failed") =>
          /\ task[1].outcome = "ok"
          /\ result \in {"nil", "SaveFileError"}
          /\ result = "nil" =>
                /\ outFile.written <=> config.OutputFile # ""
                /\ outFile.written =>
                      outFile.content = FileContent(task[1].dbConfigs)
          /\ result = "SaveFileError" =>
                config.OutputFile # "" /\ ~outFile.written
    /\ config.FetchAll =>
          \A i \in Sources :
              task[i].stamp = "failed" =>
                  /\ i \notin FetchFailed \cup StoreFailed
                  /\ task[i].pc \in {"lock", "crit", "done"}
                  /\ task[i].pc = "done" => i \in Succeeded
                  /\ Completed =>
                        /\ failedCount = Cardinality(Sources \ Succeeded)
                        /\ totalRaw =
                              SumOver(Succeeded,
                                      [j \in Sources |-> Len(task[j].rawLinks)])
                        /\ \A k \in DOMAIN task[i].dbConfigs :
                              \E n \in DOMAIN allConfigs :
                                  allConfigs[n] = task[i].dbConfigs[k]

\* an all-enabled run of two sources ended with success and its file
\* written although the timestamp write of one of them had failed
C17_Witness ==
    /\ config.FetchAll /\ pc = "done" /\ Len(srcs) = 2
    /\ task[1].stamp = "failed" /\ task[2].stamp = "ok"
    /\ 1 \notin fetchedAt /\ 2 \in fetchedAt
    /\ Succeeded = {1, 2}
    /\ failedCount = 0 /\ totalRaw = 4 /\ Len(allConfigs) = 4
    /\ result = "nil" /\ outFile.written

\* the runs whose sources are stored subscriptions
LinkedRun == config.FetchAll \/ ByIdRun

\* C18: every call of the Retriever is made with the --useragent override
\* when one is given, and otherwise with the user agent stored with the
\* subscription (by-id, all-enabled) or with none (by-URL, by-file); a
\* request that is sent carries that value as its User-Agent header, and no
\* header is set when the value is empty.
C18_EffectiveUserAgent ==
    \A i \in 1..MaxSubs :
        task[i].called =>
            LET own == IF LinkedRun THEN subs[srcs[i].ID].UserAgent.String
                       ELSE ""
                effective == IF config.UserAgent # "" THEN config.UserAgent
                             ELSE own
            IN  /\ task[i].sub.UserAgent = effective
                /\ task[i].header = IF task[i].sent THEN effective ELSE ""

\* an all-enabled run with the override fetched subscription 1, stored with
\* its own user agent, and subscription 2, stored with none, under the
\* override
C18_Witness ==
    /\ config.FetchAll /\ pc = "done"
    /\ config.UserAgent = "Override/1.0"
    /\ subs[1].UserAgent = NullString("Stored/1.0")
    /\ subs[2].UserAgent = NullString("")
    /\ task[1].sent /\ task[1].header = "Override/1.0"
    /\ task[2].sent /\ task[2].header = "Override/1.0"

\* the run passed validation and ListSubscriptions returned the subscriptions
Listed == result \notin {"ConfigurationError", "StoreError"}

\* C19: in all-enabled mode no disabled subscription is ever handed to the
\* Retriever and no subscription more than once; when the run ends, having
\* passed validation and listed the subscriptions, every enabled
\* subscription was handed to it once and the sources were the enabled
\* subscriptions; and with no subscription enabled that run ends with no
\* error and has done no work.
C19_EnabledOnly ==
    config.FetchAll =>
        LET enabled == {id \in 1..MaxSubs : subs[id].Enabled}
        IN  /\ \A id \in 1..MaxSubs :
                 fetchCalls[subs[id].URL] <= IF id \in enabled THEN 1 ELSE 0
            /\ enabled = {} => NoWorkDone
            /\ (pc = "done" /\ Listed) =>
                  /\ \A id \in enabled : fetchCalls[subs[id].URL] = 1
                  /\ {srcs[i].ID : i \in Sources} = enabled
                  /\ Len(srcs) = Cardinality(enabled)
                  /\ enabled = {} => result = "nil"

\* subscriptions 1 and 3 fetched, the disabled subscription 2 not
C19_Witness ==
    /\ config.FetchAll /\ pc = "done" /\ result = "nil"
    /\ subs[1].Enabled /\ ~subs[2].Enabled /\ subs[3].Enabled
    /\ fetchCalls[Url(1)] = 1 /\ fetchCalls[Url(2)] = 0 /\ fetchCalls[Url(3)] = 1
    /\ Succeeded = {1, 2}

\* C20: every config a unit of work has built has no owning subscription
\* in a by-URL or by-file run, and in a by-id or all-enabled run has as
\* owner the subscription stored with the URL that unit handed to the
\* Retriever (the one of --id in a by-id run); the same holds of the
\* aggregate list, whose configs are those of the units of work.
C20_OwnerPerMode ==
    /\ \A i \in 1..MaxSubs : \A k \in DOMAIN task[i].dbConfigs :
          LET owner == task[i].dbConfigs[k].SubscriptionID
          IN  IF LinkedRun
              THEN /\ owner.Valid
                   /\ owner.Int64 \in DOMAIN subs
                   /\ subs[owner.Int64].URL = task[i].sub.Url
                   /\ ByIdRun => owner.Int64 = config.SubscriptionID
              ELSE ~owner.Valid
    /\ \A n \in DOMAIN allConfigs :
          /\ allConfigs[n].SubscriptionID.Valid <=> LinkedRun
          /\ \E i \in Sources : \E k \in DOMAIN task[i].dbConfigs :
                allConfigs[n] = task[i].dbConfigs[k]

\* subscriptions 2 and 3 are fetched by two workers at once, and each unit
\* holds configs owned by its own subscription
C20_Witness ==
    /\ config.FetchAll /\ ~subs[1].Enabled /\ workers = 2
    /\ task[1].pc = "persist" /\ task[2].pc = "persist"
    /\ task[1].dbConfigs[1].SubscriptionID = NullInt64(2, TRUE)
    /\ task[2].dbConfigs[1].SubscriptionID = NullInt64(3, TRUE)

(***************************************************************************)
(* Properties of the output file and of the batches handed to the store.   *)
(***************************************************************************)
\* the sources whose configs were handed to an upsert that succeeded
PersistedSources == {i \in Sources : i \in handed /\ task[i].outcome = "ok"}

\* the orders in which the sources of S can be aggregated
Orders(S) ==
    {p \in [1..Cardinality(S) -> S] :
        \A a \in DOMAIN p : \A b \in DOMAIN p : p[a] = p[b] => a = b}

RECURSIVE LinksInOrder(_)
\* the raw links of the configs of the sources of p, source after source
LinksInOrder(p) ==
    IF p = <<>> THEN <<>>
    ELSE [k \in DOMAIN task[Head(p)].dbConfigs |->
             task[Head(p)].dbConfigs[k].ConfigLink]
         \o LinksInOrder(Tail(p))

\* the output file holds, one per line and each followed by a newline, the
\* raw links of the persisted sources and nothing else
FileHoldsPersisted ==
    LET lines == Split(outFile.content, NL)
    IN  /\ lines[Len(lines)] = <<>>
        /\ \E p \in Orders(PersistedSources) :
             SubSeq(lines, 1, Len(lines) - 1) = LinksInOrder(p)

\* C21 as stated: when a run that had a source has ended, the output file is
\* written if and only if an output path is configured and a config was
\* persisted, and it holds the persisted links, one per line.
C21_FileIffPathAndPersisted ==
    /\ outFile.written => pc = "done"
    /\ (pc = "done" /\ srcs # <<>>) =>
          /\ outFile.written <=>
                (config.OutputFile # "" /\ PersistedSources # {})
          /\ outFile.written => FileHoldsPersisted

\* C21 amended: when a run that had a source has ended, the output file is
\* written if and only if an output path is configured, a config was
\* persisted and the write did not fail; a failed write ends the run with
\* the error of the write; a written file holds the raw link of every
\* config of every persisted source, one per line and each followed by a
\* newline, and no line of a source whose fetch or upsert failed; and no
\* file is written before the run ends.
C21_FileIffPathPersistedAndWritable ==
    /\ outFile.written => pc = "done"
    /\ (pc = "done" /\ srcs # <<>>) =>
          /\ outFile.written <=>
                /\ config.OutputFile # ""
                /\ PersistedSources # {}
                /\ result # "SaveFileError"
          /\ result = "SaveFileError" =>
                config.OutputFile # "" /\ PersistedSources # {}
          /\ outFile.written => FileHoldsPersisted

\* of three sources one failed in the Retriever, one in the upsert and one
\* was persisted: the file holds the two links of the third
C21_Witness ==
    /\ FanOutRun /\ pc = "done" /\ Len(srcs) = 3
    /\ Cardinality(FetchFailed) = 1 /\ Cardinality(StoreFailed) = 1
    /\ Cardinality(PersistedSources) = 1
    /\ outFile.written
    /\ outFile.content = <<ChV, NL, ChX, NL>>

\* C22: every batch a unit of work holds for the upsert, or has handed to
\* it, contains each raw link at most once, also when the body of the source
\* repeats a link.
C22_BatchHasNoRepeatedLink ==
    \A i \in 1..MaxSubs :
        (Upserting(i) \/ i \in handed) =>
            \A a \in DOMAIN task[i].dbConfigs :
                \A b \in DOMAIN task[i].dbConfigs :
                    task[i].dbConfigs[a].ConfigLink = task[i].dbConfigs[b].ConfigLink
                        => a = b

RECURSIVE ConfigsInOrder(_)
\* the configs of the sources of p, source after source
ConfigsInOrder(p) ==
    IF p = <<>> THEN <<>>
    ELSE task[Head(p)].dbConfigs \o ConfigsInOrder(Tail(p))

\* C23: in a fan-out run a source whose upsert failed has returned without
\* touching the aggregate, and the failure counter counts it once: at every
\* time the counter is the number of sources that failed; once the pool has
\* drained the raw-link total and the aggregate list are those of the
\* successful sources alone, a written output file holds that list, and
\* every other source whose fetch returned a link has had its upsert
\* attempted; and the configs of every other source past its upsert are in
\* the store.
C23_StoreFailureIsOneSourceFailure ==
    FanOutRun =>
        /\ failedCount = Cardinality(FetchFailed) + Cardinality(StoreFailed)
        /\ failedCount <= Len(srcs)
        /\ \A i \in StoreFailed :
             /\ task[i].pc = "done" /\ i \in handed
             /\ task[i].err = Err("StoreError", 0)
             /\ mu # i
             /\ \A j \in PastUpsert : j # i /\ Persisted(j)
        /\ Completed =>
             /\ totalRaw =
                  SumOver(Succeeded, [j \in Sources |-> Len(task[j].rawLinks)])
             /\ \E p \in Orders(Succeeded) : allConfigs = ConfigsInOrder(p)
             /\ outFile.written => outFile.content = FileContent(allConfigs)
             /\ \A j \in Sources \ FetchFailed :
                  task[j].dbConfigs # <<>> => j \in handed

\* the upsert of the second of three sources failed, the first and the
\* third were persisted, and the file holds their four links
C23_Witness ==
    /\ FanOutRun /\ pc = "done" /\ Len(srcs) = 3 /\ workers = 2
    /\ StoreFailed = {2} /\ Succeeded = {1, 3}
    /\ task[2].dbConfigs # <<>>
    /\ failedCount = 1 /\ totalRaw = 4 /\ Len(allConfigs) = 4
    /\ Persisted(1) /\ Persisted(3)
    /\ outFile.written /\ Len(outFile.content) = 8
    /\ result = "SourcesFailed"

(***************************************************************************)
(* Properties of the single-source modes.                                  *)
(***************************************************************************)
\* a by-id or by-URL run that passed validation
SingleRun ==
    /\ ~config.FetchAll /\ config.FileInput = "" /\ ~NoSelector
    /\ result # "ConfigurationError"

\* C24: a by-id or by-URL run creates no pool and counts no failure; when
\* it has ended, its outcome is NotFound exactly when the subscription of
\* --id is not stored, and then no Retriever was called and nothing was
\* written; it is the fetch error exactly when the Retriever call failed,
\* and then no upsert was attempted and no row, timestamp or output file was
\* written; and it is the store error exactly when the upsert failed, and
\* then no timestamp and no output file was written.
C24_SingleSourceFailureIsOutcome ==
    SingleRun =>
        /\ workers = 0 /\ failedCount = 0 /\ ~report.printed
        /\ pc = "done" =>
             /\ result = "NotFound" <=>
                   (ByIdRun /\ config.SubscriptionID \notin DOMAIN subs)
             /\ result = "NotFound" => NoWorkDone
             /\ result = "FetchError" <=> task[1].outcome = "fetchErr"
             /\ result = "FetchError" =>
                   /\ task[1].err # NoErr
                   /\ handed = {} /\ store = <<>> /\ fetchedAt = {}
                   /\ ~outFile.written
             /\ result = "StoreError" <=> task[1].outcome = "storeErr"
             /\ result = "StoreError" =>
                   /\ task[1].err = NoErr /\ handed = {1}
                   /\ fetchedAt = {} /\ task[1].stamp = "none"
                   /\ ~outFile.written

\* --id 1 with an output file: the two links were fetched, the upsert
\* failed, and the run ended with the store error and nothing written
C24_Witness ==
    /\ ByIdRun /\ config.OutputFile # "" /\ pc = "done"
    /\ Len(task[1].dbConfigs) = 2
    /\ task[1].outcome = "storeErr"
    /\ result = "StoreError"
    /\ fetchedAt = {} /\ ~outFile.written

(***************************************************************************)
(* Properties of the order of links.                                       *)
(***************************************************************************)
\* the raw links of the configs cs, in their order
LinksOf(cs) == [k \in DOMAIN cs |-> cs[k].ConfigLink]

RECURSIVE RawInOrder(_)
\* the links the Retriever returned for the sources of p, source after source
RawInOrder(p) ==
    IF p = <<>> THEN <<>>
    ELSE task[Head(p)].rawLinks \o RawInOrder(Tail(p))

\* C25: the configs a unit of work builds and hands to the upsert carry the
\* links the Retriever returned for its source, in the order it returned
\* them; the aggregate list of a drained pool is made of the links of the
\* successful sources, those of one source together and in that order; and
\* the lines of a written output file are the links of the persisted
\* sources, those of one source together and in that order.
C25_LinkOrderPreserved ==
    /\ \A i \in 1..MaxSubs :
          (task[i].dbConfigs # <<>> \/ Upserting(i) \/ i \in handed) =>
              LinksOf(task[i].dbConfigs) = task[i].rawLinks
    /\ Completed =>
          \E p \in Orders(Succeeded) : LinksOf(allConfigs) = RawInOrder(p)
    /\ outFile.written =>
          LET lines == Split(outFile.content, NL)
          IN  \E p \in Orders(PersistedSources) :
                  SubSeq(lines, 1, Len(lines) - 1) = RawInOrder(p)

\* two sources answered with the same two links in opposite orders, and the
\* file holds each pair in the order of its source
C25_Witness ==
    /\ FanOutRun /\ pc = "done" /\ Len(srcs) = 2
    /\ task[1].rawLinks = << <<ChV>>, <<ChX>> >>
    /\ task[2].rawLinks = << <<ChX>>, <<ChV>> >>
    /\ PersistedSources = {1, 2}
    /\ outFile.written
    /\ outFile.content \in {<<ChV, NL, ChX, NL, ChX, NL, ChV, NL>>,
                            <<ChX, NL, ChV, NL, ChV, NL, ChX, NL>>}

(***************************************************************************)
(* Properties of the Wireguard decoder.                                    *)
(***************************************************************************)
\* the places in raw of the links Wireguard.Parse accepts
WireParsed(raw) ==
    {k \in DOMAIN raw : WireguardParse(NewWireguard(raw[k])).ok}

\* C26: the config parseLinks builds from a link that Wireguard.Parse
\* accepts has the protocol name of the variant, and has a remark whenever
\* the link has a fragment that is not empty.
C26_SummaryCarriesRemark ==
    pout.called =>
        \A n \in DOMAIN pout.configs :
            LET link == pout.configs[n].ConfigLink
                parsed == WireguardParse(NewWireguard(link))
            IN  parsed.ok =>
                  /\ pout.configs[n].Protocol = NullString(WireguardName)
                  /\ UrlParseLink(link).Fragment # <<>> =>
                        pout.configs[n].Remark.Valid

(***************************************************************************)
(* Properties of the rm command.                                           *)
(***************************************************************************)
\* byte c is the lower-case letter l or its upper-case form
IsLetter(c, l) == c = l \/ c = l - 32

\* the first line the user typed is, apart from white space around it and
\* from the case of its letters, "y" or "yes"
AnsweredYes ==
    LET a == Trimmed(LineAt(rm.stdin, 1))
    IN  \/ Len(a) = 1 /\ IsLetter(a[1], ChY)
        \/ /\ Len(a) = 3
           /\ IsLetter(a[1], ChY) /\ IsLetter(a[2], ChE) /\ IsLetter(a[3], ChS)

\* the subscriptions and the configs are as they were before rm ran
DbUnchanged == subs = rm.before.subs /\ store = rm.before.store

\* C27: in a run of rm without --yes, the database differs from what it was
\* only if the subscription was found, the prompt was shown and answered
\* with "y" or "yes", and then the subscription removed is the one named;
\* when the run has ended after any other answer it has returned no error
\* and the database is unchanged; when it has ended without a prompt (the
\* argument is no number, or the lookup failed) the database is unchanged;
\* and when it has ended with no error after a confirming answer the
\* subscription is gone.
C27_DeleteOnlyAfterYes ==
    (rm.pc # "idle" /\ ~rm.yes) =>
        /\ ~DbUnchanged =>
              /\ rm.prompted /\ AnsweredYes
              /\ rm.arg.ok /\ rm.arg.id \in DOMAIN rm.before.subs
              /\ DOMAIN subs = DOMAIN rm.before.subs \ {rm.arg.id}
        /\ (rm.pc = "done" /\ rm.prompted /\ ~AnsweredYes) =>
              DbUnchanged /\ rm.result = "nil"
        /\ (rm.pc = "done" /\ ~rm.prompted) =>
              /\ DbUnchanged
              /\ rm.result \in {"InvalidID", "NotFound", "StoreError"}
        /\ (rm.pc = "done" /\ rm.prompted /\ AnsweredYes /\ rm.result = "nil") =>
              rm.arg.id \notin DOMAIN subs

\* subscription 2 and its config were removed after the answer " Y"
C27_Witness ==
    /\ ~rm.yes /\ rm.arg = [ok |-> TRUE, id |-> 2]
    /\ rm.stdin = <<SP, ChYUp, NL>>
    /\ rm.pc = "done" /\ rm.result = "nil"
    /\ 2 \notin DOMAIN subs
    /\ Len(rm.before.store) = 3 /\ Len(store) = 2

(***************************************************************************)
(* Properties of the accounting of a fan-out run.                          *)
(***************************************************************************)
\* the sources whose unit of work has returned
Returned == {i \in Sources : task[i].pc = "done"}

\* C28: in a fan-out run the failure counter is at every time the number of
\* sources that have returned as failed, so never more than the number of
\* sources, and no more units of work have started than there are sources;
\* once the pool has drained every source has returned, as failed or as a
\* success and never as both, the reported failures and the successes add up
\* to the number of sources, and the reported totals are those of the
\* successes.
C28_ExactlyOnceAccounting ==
    FanOutRun =>
        /\ failedCount = Cardinality(Returned \ Succeeded)
        /\ failedCount <= Len(srcs)
        /\ doneCount <= Len(srcs)
        /\ Succeeded \subseteq Returned
        /\ Completed =>
             /\ Returned = Sources /\ doneCount = Len(srcs)
             /\ \A i \in Sources :
                  task[i].outcome \in {"ok", "fetchErr", "storeErr"}
             /\ report.printed
             /\ report.failed + Cardinality(Succeeded) = Len(srcs)
             /\ report.failed = failedCount
             /\ report.links =
                  SumOver(Succeeded, [i \in Sources |-> Len(task[i].rawLinks)])
             /\ report.saved =
                  SumOver(Succeeded, [i \in Sources |-> Len(task[i].dbConfigs)])

\* of three sources on two workers two failed and one succeeded
C28_Witness ==
    /\ FanOutRun /\ pc = "done" /\ Len(srcs) = 3 /\ workers = 2
    /\ Cardinality(FetchFailed) = 1 /\ Cardinality(StoreFailed) = 1
    /\ Cardinality(Succeeded) = 1
    /\ report = [printed |-> TRUE, links |-> 2, saved |-> 2, failed |-> 2]
    /\ doneCount = 3

(***************************************************************************)
(* Properties of the last-fetched timestamps.                              *)
(***************************************************************************)
\* C29: a unit of work attempts the write of a last-fetched timestamp only
\* in a by-id or all-enabled run, for the subscription it fetched, after its
\* own Retriever call returned no error and its own upsert succeeded with
\* its configs in the store; every timestamp written is one such write that
\* succeeded; no source whose fetch or upsert failed has a timestamp
\* attempted or written; a by-URL or by-file run writes no timestamp; and
\* no run adds or changes a subscription.
C29_TimestampOnlyAfterOwnSuccess ==
    /\ \A i \in 1..MaxSubs :
          task[i].stamp # "none" =>
              /\ LinkedRun /\ i \in Sources /\ srcs[i].ID \in DOMAIN subs
              /\ task[i].called /\ task[i].err = NoErr
              /\ task[i].sub.Url = subs[srcs[i].ID].URL
              /\ i \in handed /\ task[i].outcome \notin {"fetchErr", "storeErr"}
              /\ Persisted(i)
    /\ \A id \in fetchedAt :
          \E i \in Sources : srcs[i].ID = id /\ task[i].stamp = "ok"
    /\ \A i \in Sources :
          task[i].outcome \in {"fetchErr", "storeErr"} =>
              task[i].stamp = "none" /\ srcs[i].ID \notin fetchedAt
    /\ UnlinkedRun => fetchedAt = {}
    /\ DOMAIN subs = 1..MaxSubs
    /\ \A id \in DOMAIN subs : subs[id] = DbSubscription(id, subs[id].Enabled)

\* an all-enabled run of three subscriptions: the fetch of one failed, the
\* upsert of another failed, and only the third has its timestamp
C29_Witness ==
    /\ config.FetchAll /\ pc = "done" /\ Len(srcs) = 3
    /\ task[1].outcome = "fetchErr"
    /\ task[2].outcome = "storeErr" /\ task[2].dbConfigs # <<>>
    /\ task[3].outcome = "ok" /\ task[3].stamp = "ok"
    /\ fetchedAt = {3}

(***************************************************************************)
(* Properties of the runs with no source.                                  *)
(***************************************************************************)
\* a by-file run with a worker count validation accepts
FileRun ==
    /\ ~config.FetchAll /\ config.FileInput # ""
    /\ config.Workers >= WorkersMin /\ config.Workers <= WorkersMax

\* no pool was created and no unit of work was submitted or started
NoPool ==
    /\ workers = 0 /\ queue = <<>> /\ doneCount = 0 /\ failedCount = 0
    /\ ~report.printed

\* C30: a by-file run whose file yields no URL creates no pool, calls no
\* Retriever and writes neither to the store nor to the output file, and
\* when it has ended it has returned the error of the empty file; no other
\* run returns that error; and an all-enabled run that listed the
\* subscriptions and found none enabled has, when it has ended, returned no
\* error, also without a pool and without work.
C30_EmptyFileIsAnError ==
    /\ (FileRun /\ fileUrls = <<>>) =>
          /\ NoWorkDone /\ NoPool
          /\ pc = "done" => result = "NoURLs"
    /\ result = "NoURLs" => (FileRun /\ fileUrls = <<>> /\ pc = "done")
    /\ (/\ config.FetchAll /\ pc = "done" /\ Listed
        /\ \A id \in DOMAIN subs : ~subs[id].Enabled) =>
          result = "nil" /\ NoWorkDone /\ NoPool

\* --file with an output path and a file with no URL ended with the error
C30_Witness ==
    /\ FileRun /\ config.OutputFile # "" /\ fileUrls = <<>>
    /\ pc = "done" /\ result = "NoURLs"
    /\ NoWorkDone /\ NoPool

====
